---- MODULE Spec2Model ----
(***************************************************************************)
(* A model of the dockge Rust backend (src/backend-rust/src): the terminal *)
(* manager, the stack model on disk, the stack lifecycle handlers and the  *)
(* per-connection session state.                                           *)
(*                                                                         *)
(* Environment assumptions: file-system calls on the stacks directory      *)
(* succeed; one user exists in the database (setup has been done); the     *)
(* engine's `compose ls` listing does not change during a behaviour.       *)
(***************************************************************************)
EXTENDS Integers, Sequences, FiniteSets, TLC

\* ------------------------------------------------------------------ bounds
MaxConns == 2
MaxTasks == 2
MaxTerms == 3

Conns == 1..MaxConns
Tasks == 1..MaxTasks
TermIds == 1..MaxTerms

\* ------------------------------------------------------------------- texts
\* A text is a sequence of one-character strings.
White == {" ", "\n"}

\* str::trim().is_empty()
TrimEmpty(t) == \A i \in 1..Len(t) : t[i] \in White

\* str::lines(): the pieces between line feeds; a final line feed adds no line.
RECURSIVE LinesFrom(_, _, _)
LinesFrom(t, i, cur) ==
    IF i > Len(t) THEN (IF cur = <<>> THEN <<>> ELSE <<cur>>)
    ELSE IF t[i] = "\n" THEN <<cur>> \o LinesFrom(t, i + 1, <<>>)
    ELSE LinesFrom(t, i + 1, Append(cur, t[i]))

Lines(t) == LinesFrom(t, 1, <<>>)

Contains(t, ch) == \E i \in 1..Len(t) : t[i] = ch

RECURSIVE TrimStart(_)
TrimStart(t) == IF t # <<>> /\ Head(t) \in White THEN TrimStart(Tail(t)) ELSE t

\* serde_yaml::from_str over the alphabet used here: the only text that does not
\* parse is one whose first token opens a flow sequence "[" that nothing closes.
ValidYaml(t) == LET s == TrimStart(t) IN s = <<>> \/ Head(s) # "["

\* The characters the stack-name pattern ^[a-z0-9_-]+$ accepts.
NameChars ==
    {"a", "b", "c", "d", "e", "f", "g", "h", "i", "j", "k", "l", "m", "n", "o", "p",
     "q", "r", "s", "t", "u", "v", "w", "x", "y", "z", "0", "1", "2", "3", "4", "5",
     "6", "7", "8", "9", "_", "-"}

NameMatches(name) == name # <<>> /\ \A i \in 1..Len(name) : name[i] \in NameChars

\* ------------------------------------------------------------- stack files
ACCEPTED_COMPOSE_FILE_NAMES ==
    <<"compose.yaml", "docker-compose.yaml", "docker-compose.yml", "compose.yml">>

ACCEPTED_COMPOSE_OVERRIDE_FILE_NAMES ==
    <<"compose.override.yaml", "compose.override.yml",
      "docker-compose.override.yaml", "docker-compose.override.yml">>

EnvFile == ".env"

SeqRange(s) == {s[i] : i \in 1..Len(s)}

FileNames ==
    SeqRange(ACCEPTED_COMPOSE_FILE_NAMES) \cup SeqRange(ACCEPTED_COMPOSE_OVERRIDE_FILE_NAMES)
        \cup {EnvFile}

\* The content of a file that does not exist.
NoFile == <<"<none>">>

\* A directory under the stacks root: whether it exists, and its files.
AbsentDir == [exists |-> FALSE, files |-> [f \in FileNames |-> NoFile]]

FileExists(dir, f) == dir.exists /\ dir.files[f] # NoFile

\* The first name of the list that exists in the directory (0: none).
FirstExisting(dir, names) ==
    LET idx == {i \in 1..Len(names) : FileExists(dir, names[i])}
    IN IF idx = {} THEN 0 ELSE CHOOSE i \in idx : \A j \in idx : i <= j

\* Stack::new: the fields a fresh Stack object starts with.
StackNew ==
    [compose_yaml |-> <<>>, compose_env |-> <<>>, compose_override_yaml |-> <<>>,
     compose_file_name |-> "compose.yaml",
     compose_override_file_name |-> "compose.override.yaml"]

\* Stack::load_from_disk on a fresh Stack object.
LoadFromDisk(dir) ==
    LET c == FirstExisting(dir, ACCEPTED_COMPOSE_FILE_NAMES)
        o == FirstExisting(dir, ACCEPTED_COMPOSE_OVERRIDE_FILE_NAMES)
    IN [compose_yaml |->
            IF c = 0 THEN StackNew.compose_yaml
            ELSE dir.files[ACCEPTED_COMPOSE_FILE_NAMES[c]],
        compose_env |->
            IF FileExists(dir, EnvFile) THEN dir.files[EnvFile] ELSE StackNew.compose_env,
        compose_override_yaml |->
            IF o = 0 THEN StackNew.compose_override_yaml
            ELSE dir.files[ACCEPTED_COMPOSE_OVERRIDE_FILE_NAMES[o]],
        compose_file_name |->
            IF c = 0 THEN StackNew.compose_file_name ELSE ACCEPTED_COMPOSE_FILE_NAMES[c],
        compose_override_file_name |->
            IF o = 0 THEN StackNew.compose_override_file_name
            ELSE ACCEPTED_COMPOSE_OVERRIDE_FILE_NAMES[o]]

\* Stack::validate: "ok" or the kind of the validation error.
Validate(name, compose, env, override) ==
    IF ~NameMatches(name) THEN "badName"
    ELSE IF ~ValidYaml(compose) THEN "invalidYaml"
    ELSE IF ~TrimEmpty(override) /\ ~ValidYaml(override) THEN "invalidOverride"
    ELSE IF LET ls == Lines(env)
            IN Len(ls) = 1 /\ ~Contains(ls[1], "=") /\ ls[1] # <<>>
         THEN "invalidEnv"
    ELSE "ok"

\* A variant of WriteFiles that creates the directory and writes nothing.
WriteFilesNothing(dir, compose, env, override) == [dir EXCEPT !.exists = TRUE]

\* The writes of Stack::save once validation and the directory check passed.
\* The Stack object is fresh (Stack::new), so the file names are the defaults.
WriteFiles(dir, compose, env, override) ==
    LET d == [dir EXCEPT !.exists = TRUE]
        envW == FileExists(d, EnvFile) \/ ~TrimEmpty(env)
        ovrW == FileExists(d, StackNew.compose_override_file_name) \/ ~TrimEmpty(override)
    IN [d EXCEPT !.files =
            [f \in FileNames |->
                IF f = StackNew.compose_file_name THEN compose
                ELSE IF f = EnvFile /\ envW THEN env
                ELSE IF f = StackNew.compose_override_file_name /\ ovrW THEN override
                ELSE d.files[f]]]

\* A variant of Save that writes the files before it validates.
SaveEager(dir, name, compose, env, override, isAdd) ==
    LET v == Validate(name, compose, env, override)
        w == WriteFiles(dir, compose, env, override)
    IN IF v # "ok" THEN [res |-> v, dir |-> w]
       ELSE IF isAdd /\ dir.exists THEN [res |-> "exists", dir |-> w]
       ELSE IF ~isAdd /\ ~dir.exists THEN [res |-> "notFound", dir |-> w]
       ELSE [res |-> "ok", dir |-> w]

\* Stack::save: the result ("ok" or the error kind) and the directory afterwards.
Save(dir, name, compose, env, override, isAdd) ==
    LET v == Validate(name, compose, env, override)
    IN IF v # "ok" THEN [res |-> v, dir |-> dir]
       ELSE IF isAdd /\ dir.exists THEN [res |-> "exists", dir |-> dir]
       ELSE IF ~isAdd /\ ~dir.exists THEN [res |-> "notFound", dir |-> dir]
       ELSE [res |-> "ok", dir |-> WriteFiles(dir, compose, env, override)]

\* ---------------------------------------------------------- terminal names
\* The endpoint the handlers pass to the naming helpers is always "".
LocalEndpoint == <<>>

get_compose_terminal_name(endpoint, stack) == <<"compose", "-">> \o endpoint \o <<"-">> \o stack

get_combined_terminal_name(endpoint, stack) ==
    <<"combined", "-">> \o endpoint \o <<"-">> \o stack

get_container_log_name(endpoint, stack, container) ==
    <<"container-log", "-">> \o endpoint \o <<"-">> \o container

UpSuffix == <<"-", "u", "p">>

PruneSuffix == <<"-", "p", "r", "u", "n", "e">>

\* ------------------------------------------------------------ input domains
\* Stack names a client may send: one the pattern accepts, one it rejects.
GoodName == <<"w">>

BadName == <<"W">>

StackNames == {GoodName, BadName}

\* The service whose log the persistent terminal of this model follows.
Services == {<<"s">>}

\* The (compose, env, override) texts a client may send with saveStack or
\* deployStack: plain ones, blank but non-empty ones, and one of each kind that
\* validation rejects.
Texts(c, e, o) == [compose |-> c, env |-> e, override |-> o]

StackTexts ==
    {Texts(<<"a">>, <<>>, <<>>),
     Texts(<<"b">>, <<"a", "=", "a">>, <<"a">>),
     Texts(<<"a">>, <<"\n">>, <<>>),
     Texts(<<"a">>, <<>>, <<" ">>),
     Texts(<<"[">>, <<>>, <<>>),
     Texts(<<"a">>, <<"a">>, <<>>),
     Texts(<<"a">>, <<>>, <<"[">>)}

\* Directories the stacks root may hold for a stack when the server starts: none,
\* one written by this server, and one created by hand with the other accepted
\* file names.
LegacyDir ==
    [exists |-> TRUE,
     files |-> [f \in FileNames |->
                  IF f \in {"docker-compose.yml", "compose.override.yml"} THEN <<"a">>
                  ELSE NoFile]]

PlainDir ==
    [exists |-> TRUE,
     files |-> [f \in FileNames |-> IF f = "compose.yaml" THEN <<"a">> ELSE NoFile]]

InitDirs == {AbsentDir, PlainDir, LegacyDir}

\* The usernames a client may send with setup; the first is the user of a server
\* that has been set up.
FirstUser == <<"a">>

Usernames == {FirstUser, <<"A">>, <<"b">>}

\* handle_main_terminal: "main-terminal"
MainTerminalName == <<"main-terminal">>

TermNames ==
    UNION {{get_compose_terminal_name(LocalEndpoint, s),
            get_compose_terminal_name(LocalEndpoint, s) \o UpSuffix,
            get_compose_terminal_name(LocalEndpoint, s) \o PruneSuffix} : s \in StackNames}
        \cup {get_container_log_name(LocalEndpoint, GoodName, c) : c \in Services}
        \cup {MainTerminalName}

\* The two TerminalManager statics: handlers/stack.rs has its own.
StackMgr == "stack"

GlobalMgr == "global"

Managers == {StackMgr, GlobalMgr}

\* Option<i32>: <<>> is None, <<c>> is Some(c).
None == <<>>

Some(c) == <<c>>

\* PtySize of a new terminal (TERMINAL_ROWS, TERMINAL_COLS) and the one a client
\* may ask for.
DefaultSize == <<10, 105>>

OtherSize == <<20, 58>>

\* models/stack.rs: the status codes.
UNKNOWN == 0

CREATED_STACK == 2

RUNNING == 3

EXITED == 4

RUNNING_AND_EXITED == 5

\* update_checker.rs: const CONCURRENCY_LIMIT
CONCURRENCY_LIMIT == 3

\* The check_all and check_stack calls that may run at the same time.
MaxCycles == 2

Cycles == 1 .. MaxCycles

\* The password the user was set up with.
FirstPassword == <<"a", "b", "c", "1", "2", "3">>

\* ------------------------------------------------------------------- state
VARIABLES
    connected,      \* connected[c]: the socket is open
    userId,         \* userId[c]: SocketUserId in the socket's extensions (0: none)
    received,       \* received[c]: the pushed events the socket was sent
    everAuth,       \* history: the socket was authenticated at some time
    sentLogout,     \* history: the socket's last login/logout event was a logout
    disk,           \* disk[name]: the directory of that name under the stacks root
    engine,         \* engine[name]: the project's status in `compose ls` ("none": not listed)
    registry,       \* registry[m][name]: TerminalManager.terminals (0: no entry)
    terms,          \* terms[id]: a PtyTerminal with its child and command thread
    task,           \* task[t]: a handler invocation (a spawned tokio task)
    lastWrite,      \* history: the last change a handler made to disk[name]
    lastOk,         \* history: the last call on the name acknowledged with ok: true
    stack_cache,    \* AppState.stack_cache: the list the last refresh wrote
    recreate_cache, \* AppState.recreate_cache[name] (None: no entry)
    image_update_cache, \* the rows of the image_update_cache table, by stack and service
    ls_status,      \* the status text of a project in the last `compose ls` output
    status,         \* Stack.status of that project in the list being built
    agents,         \* the urls of the rows of the agent table
    password,       \* the password whose hash the user's row holds
    checks,         \* checks[k]: a running check_all or check_stack call and its tasks
    image_ref,      \* the image reference of a service, as the compose document has it
    parsed,         \* ParsedImageRef: what parse_image_reference made of it
    locks,          \* the RwLocks of AppState and of the terminals: holders and queues
    user,           \* the usernames of the rows of the user table
    need_setup,     \* AppState.need_setup
    update_cache    \* AppState.update_cache[stack].has_updates (None: no entry)

vars ==
    <<connected, userId, received, everAuth, sentLogout, disk, engine, registry, terms,
      task, lastWrite, lastOk, stack_cache, recreate_cache, image_update_cache,
      ls_status, status, agents, password, checks, image_ref, parsed, locks, user,
      need_setup, update_cache>>

\* What the stack list is decorated with.
refVars == <<image_ref, parsed, locks, user, need_setup, update_cache>>

cacheVars ==
    <<recreate_cache, image_update_cache, ls_status, status, agents, password, checks,
      refVars>>

\* The receivers of a terminal's broadcast channel that the model follows.
MaxSubs == 2

SubIds == 1 .. MaxSubs

\* No receiver: nothing subscribed in this place.  For the receiver of a
\* handler's forwarding task: the connection it emits to, the chunks of the
\* replay that connection was sent before it subscribed, and the code of the
\* terminalExit event it emitted.
NoSub == [state |-> "none", cur |-> 0, got |-> <<>>, conn |-> 0, replay |-> <<>>,
          exit |-> <<>>]

\* The services a compose document of the model may declare, and what
\* `docker compose ps` reports of each: no container, a container without an
\* image field (""), or a container of image "a" or "b".
ComposeServices == {"s", "u"}

NoContainer == "<none>"

PsImages == {NoContainer, "", "a", "b"}

NoPs == [svc \in ComposeServices |-> NoContainer]

\* No row of image_update_cache for a stack's service.
\* No image reference parsed yet.
NoParsed == [registry |-> <<>>, repository |-> <<>>, tag |-> <<>>]

\* The tokio RwLocks that tasks of different handlers share: AppState's
\* update_cache, recreate_cache and stack_cache, TerminalManager.terminals and a
\* PtyTerminal's buffer.
LockNames == {"update_cache", "recreate_cache", "stack_cache", "terminals", "buffer"}

\* The tasks that take them: the 10-second tick (refresh_stack_cache), a handler's
\* broadcast_stack_list, handle_service_status_list, check_all, a terminalJoin
\* (TerminalManager::get_buffer), a terminal's fan-out task (push_buffer) and an
\* exec call.
LockTasks ==
    {"refresh_stack_cache", "broadcast_stack_list", "handle_service_status_list",
     "check_all", "get_buffer", "push_buffer", "exec"}

\* No lock held, nobody waiting, no task running.
NoLocks ==
    [held |-> [l \in LockNames |-> {}], queue |-> [l \in LockNames |-> <<>>],
     at |-> [p \in LockTasks |-> 0]]

\* A check_all / check_stack call that is not running: no semaphore, no tasks.
NoCycle ==
    [kind |-> "idle", permits |-> 0,
     job |-> [n \in StackNames |-> [svc \in ComposeServices |-> "none"]]]

NoRow == [checked |-> FALSE, local_digest |-> <<>>, remote_digest |-> <<>>,
          has_update |-> FALSE, ignore |-> <<>>]

\* A name that a stack list does not hold.
NotListed == [listed |-> FALSE, managed |-> FALSE, status |-> "none",
              recreateNecessary |-> FALSE]

\* AppState::new: HashMap::new()
EmptyCache == [n \in StackNames |-> NotListed]

NoTexts == [kind |-> "none", compose |-> <<>>, env |-> <<>>, override |-> <<>>]

FreeTerm ==
    [used |-> FALSE, name |-> <<>>, mgr |-> StackMgr, owner |-> 0, stack |-> <<>>,
     interactive |-> FALSE, alive |-> FALSE, status |-> None, exit |-> None,
     cmdQ |-> <<>>, thread |-> "done", size |-> DefaultSize, autoRemove |-> FALSE,
     out |-> 0, pipe |-> <<>>, held |-> <<>>, buffer |-> <<>>, pushLog |-> <<>>,
     sent |-> <<>>, sink |-> <<>>, subs |-> [s \in SubIds |-> NoSub]]

IdleTask ==
    [op |-> "none", conn |-> 0, via |-> "direct", stack |-> <<>>, pc |-> "idle",
     ack |-> "none", authed |-> FALSE, phase |-> 0, name |-> <<>>, term |-> 0, sub |-> 0,
     result |-> "none", saveRes |-> "none", disk0 |-> AbsentDir, loaded |-> StackNew,
     started |-> FALSE, delFiles |-> FALSE, bcast |-> FALSE, childLive |-> FALSE,
     ran |-> FALSE, buf |-> <<>>, seen |-> <<>>, snap |-> EmptyCache, recreate |-> {},
     ps |-> NoPs, texts |-> NoTexts]

InitServer ==
    /\ connected = [c \in Conns |-> FALSE]
    /\ userId = [c \in Conns |-> 0]
    /\ received = [c \in Conns |-> {}]
    /\ everAuth = [c \in Conns |-> FALSE]
    /\ sentLogout = [c \in Conns |-> FALSE]
    /\ registry = [m \in Managers |-> [n \in TermNames |-> 0]]
    /\ terms = [i \in TermIds |-> FreeTerm]
    /\ task = [t \in Tasks |-> IdleTask]
    /\ lastWrite = [n \in StackNames |-> NoTexts]
    /\ lastOk = [n \in StackNames |-> NoTexts]
    /\ stack_cache = EmptyCache
    /\ recreate_cache = [n \in StackNames |-> None]
    /\ image_update_cache = [n \in StackNames |-> [svc \in ComposeServices |-> NoRow]]
    /\ ls_status = <<>>
    /\ status = UNKNOWN
    /\ agents = {}
    /\ password = FirstPassword
    /\ checks = [k \in Cycles |-> NoCycle]
    /\ image_ref = <<>>
    /\ parsed = NoParsed
    /\ locks = NoLocks
    /\ update_cache = [n \in StackNames |-> None]

\* A server whose user table has its one user, so that main.rs left need_setup
\* false.
InitCommon ==
    /\ InitServer
    /\ user = {FirstUser}
    /\ need_setup = FALSE

\* ------------------------------------------------------------- connections
\* main.rs io.ns("/") connection handler: a fresh socket with no user id.
Connect(c) ==
    /\ ~connected[c]
    /\ connected' = [connected EXCEPT ![c] = TRUE]
    /\ userId' = [userId EXCEPT ![c] = 0]
    /\ received' = [received EXCEPT ![c] = {}]
    /\ everAuth' = [everAuth EXCEPT ![c] = FALSE]
    /\ sentLogout' = [sentLogout EXCEPT ![c] = FALSE]
    /\ UNCHANGED <<disk, engine, cacheVars, stack_cache, registry, terms, task,
                   lastWrite, lastOk>>

\* The socket closes: the transport drops it with its extensions.
Disconnect(c) ==
    /\ connected[c]
    /\ connected' = [connected EXCEPT ![c] = FALSE]
    /\ userId' = [userId EXCEPT ![c] = 0]
    /\ sentLogout' = [sentLogout EXCEPT ![c] = FALSE]
    /\ received' = [received EXCEPT ![c] = {}]
    /\ everAuth' = [everAuth EXCEPT ![c] = FALSE]
    /\ UNCHANGED <<disk, engine, cacheVars, stack_cache, registry, terms, task,
                   lastWrite, lastOk>>

\* check_login
check_login(c) == userId[c] # 0

\* ------------------------------------------------------------------ helpers
connVars == <<connected, userId, everAuth, sentLogout>>

diskVars == <<disk, lastWrite, lastOk>>

termVars == <<registry, terms>>

\* The operations that write or remove a stack's directory.
SaveOps == {"saveStack", "deployStack"}

DiskOps == SaveOps \cup {"deleteStack", "forceDeleteStack"}

\* A handler may start in a task slot that holds no running handler.
SlotFree(t) == task[t].pc \in {"idle", "done"}

\* The handler's task at its first statement: check_login reads the socket; disk0
\* remembers the stack's directory as the handler found it.
NewTask(op, c, via, stack) ==
    [IdleTask EXCEPT !.op = op, !.conn = c, !.via = via, !.stack = stack,
                     !.authed = check_login(c),
                     !.disk0 = IF op \in DiskOps THEN disk[stack] ELSE AbsentDir]

\* The handler returns: its acknowledgement, and whether it broadcast the stack
\* list; its locals are gone.
Done(rec, ack, bcast) ==
    [rec EXCEPT !.pc = "done", !.ack = ack, !.bcast = bcast, !.phase = 0,
                !.name = <<>>, !.term = 0, !.sub = 0, !.started = FALSE, !.result = "none",
                !.snap = EmptyCache]

\* return error_response("Not logged in")
NotLoggedIn(op, c, via, stack) ==
    [NewTask(op, c, via, stack) EXCEPT !.pc = "done", !.ack = "NotLoggedIn"]

\* Stack::get_stack_list: the directories under the stacks root that hold a
\* compose file (status CREATED_FILE), then the projects of the engine's listing,
\* whose status replaces it.
get_stack_list(d, e) ==
    [n \in StackNames |->
        LET hasCompose == /\ d[n].exists
                          /\ \E f \in SeqRange(ACCEPTED_COMPOSE_FILE_NAMES) : FileExists(d[n], f)
        IN IF ~hasCompose /\ e[n] = "none" THEN NotListed
           ELSE [listed |-> TRUE, managed |-> d[n].exists,
                 status |-> IF e[n] = "none" THEN "created_file" ELSE e[n],
                 recreateNecessary |-> FALSE]]

\* A variant of SimpleList that does not look at recreate_cache.
SimpleListNoRecreate(list, rc) == list

\* refresh_stack_cache from the list it read: to_simple_json of every stack with
\* the flag of recreate_cache (false without an entry).
SimpleList(list, rc) ==
    [n \in StackNames |->
        IF list[n].listed THEN [list[n] EXCEPT !.recreateNecessary = (rc[n] = Some(TRUE))]
        ELSE NotListed]

\* refresh_stack_cache taken as one step: the value it writes to stack_cache.
refresh_stack_cache(d) == SimpleList(get_stack_list(d, engine), recreate_cache)

\* broadcast_stack_list: state.io.emit("agent", ("stackList", ..)) reaches every
\* socket of the "/" namespace.
BroadcastStackList ==
    [c \in Conns |-> IF connected[c] THEN received[c] \cup {"stackList"} ELSE received[c]]

\* broadcast_stack_list taken as one step, d being the stacks directory it reads:
\* refresh_stack_cache, then the emit of the cache.
broadcast_stack_list(d) ==
    /\ stack_cache' = refresh_stack_cache(d)
    /\ received' = BroadcastStackList

\* Stack::get_stack: the directory if it exists, else the project of that name in
\* the engine's listing, else NotFound.  is_started() of the result: a stack loaded
\* from its directory keeps Stack::new's status UNKNOWN.
GetStackFound(name) == disk[name].exists \/ engine[name] # "none"

GetStackStarted(name) == ~disk[name].exists /\ engine[name] = "running"

GetStackLoaded(name) == IF disk[name].exists THEN LoadFromDisk(disk[name]) ELSE StackNew

\* ----------------------------------------------------------------- sessions
\* after_login: send_info, send_stack_list_to_socket, send_agent_list.
\* send_stack_list_to_socket: an empty cache is refreshed first.
send_stack_list_to_socket ==
    IF stack_cache = EmptyCache THEN refresh_stack_cache(disk) ELSE stack_cache

after_login(c) == [received EXCEPT ![c] = @ \cup {"info", "stackList", "agentList"}]

\* handle_login with good credentials: the user id goes into the socket's
\* extensions, then after_login.
Login(c) ==
    /\ connected[c]
    /\ userId' = [userId EXCEPT ![c] = 1]
    /\ everAuth' = [everAuth EXCEPT ![c] = TRUE]
    /\ sentLogout' = [sentLogout EXCEPT ![c] = FALSE]
    /\ received' = after_login(c)
    /\ stack_cache' = send_stack_list_to_socket
    /\ UNCHANGED <<connected, disk, engine, cacheVars, registry, terms, task,
                   lastWrite, lastOk>>

\* handle_login_by_token with a valid token of the user.
LoginByToken(c) ==
    /\ connected[c]
    /\ userId[c] = 0
    /\ userId' = [userId EXCEPT ![c] = 1]
    /\ everAuth' = [everAuth EXCEPT ![c] = TRUE]
    /\ sentLogout' = [sentLogout EXCEPT ![c] = FALSE]
    /\ received' = after_login(c)
    /\ stack_cache' = send_stack_list_to_socket
    /\ UNCHANGED <<connected, disk, engine, cacheVars, registry, terms, task,
                   lastWrite, lastOk>>

\* The client sends `logout`.  No handler is registered for it (auth.rs register):
\* sent directly the event is dropped; sent through the agent proxy it reaches the
\* default arm of route_agent_event, which acknowledges "Unknown event".
Logout(t, c, via) ==
    /\ connected[c]
    /\ sentLogout' = [sentLogout EXCEPT ![c] = TRUE]
    /\ IF via = "agent"
       THEN /\ SlotFree(t)
            /\ task' = [task EXCEPT ![t] =
                          [NewTask("logout", c, via, <<>>) EXCEPT
                              !.pc = "done", !.ack = "UnknownEvent"]]
       ELSE UNCHANGED task
    /\ UNCHANGED <<connected, userId, everAuth, received, stack_cache, disk, engine,
                   cacheVars, registry, terms,
                   lastWrite, lastOk>>

\* ------------------------------------------------------ stack list handlers
\* requestStackList: refresh the cache, broadcast, acknowledge "Updated".
RequestStackList(t, c, via) ==
    /\ connected[c] /\ SlotFree(t)
    /\ IF ~check_login(c)
       THEN /\ task' = [task EXCEPT ![t] = NotLoggedIn("requestStackList", c, via, <<>>)]
            /\ UNCHANGED <<received, stack_cache>>
       ELSE /\ task' = [task EXCEPT ![t] =
                          [NewTask("requestStackList", c, via, <<>>) EXCEPT
                              !.pc = "done", !.ack = "ok", !.bcast = TRUE]]
            /\ broadcast_stack_list(disk)
    /\ UNCHANGED <<connVars, diskVars, engine, cacheVars, termVars>>

\* main.rs: the 10-second refresh tick.
Tick ==
    /\ broadcast_stack_list(disk)
    /\ UNCHANGED <<connVars, diskVars, engine, cacheVars, termVars, task>>

\* ------------------------------------------- the refresh, step by step
\* The requestStackList handler up to its first await: check_login, then
\* refresh_stack_cache (phase 1) and broadcast_stack_list (phase 2).
RequestStackListBegin(t, c, via) ==
    /\ connected[c] /\ SlotFree(t)
    /\ task' = [task EXCEPT ![t] =
          IF ~check_login(c) THEN NotLoggedIn("requestStackList", c, via, <<>>)
          ELSE [NewTask("requestStackList", c, via, <<>>) EXCEPT !.pc = "read", !.phase = 1]]
    /\ UNCHANGED <<connVars, received, stack_cache, diskVars, engine, cacheVars, termVars>>

\* main.rs: interval.tick() returned; broadcast_stack_list starts.
TickBegin(t) ==
    /\ SlotFree(t)
    /\ task' = [task EXCEPT ![t] = [IdleTask EXCEPT !.op = "tick", !.pc = "read", !.phase = 2]]
    /\ UNCHANGED <<connVars, received, stack_cache, diskVars, engine, cacheVars, termVars>>

\* refresh_stack_cache: Stack::get_stack_list(..).await
RefreshRead(t) ==
    /\ task[t].pc = "read"
    /\ task' = [task EXCEPT ![t].snap = get_stack_list(disk, engine), ![t].pc = "write"]
    /\ UNCHANGED <<connVars, received, stack_cache, diskVars, engine, cacheVars, termVars>>

\* refresh_stack_cache: *stack_cache = cache
RefreshWrite(t) ==
    /\ task[t].pc = "write"
    /\ stack_cache' = SimpleList(task[t].snap, recreate_cache)
    /\ task' = [task EXCEPT ![t].pc = IF task[t].phase = 1 THEN "read" ELSE "emit",
                            ![t].phase = 2]
    /\ UNCHANGED <<connVars, received, diskVars, engine, cacheVars, termVars>>

\* broadcast_stack_list: read the cache and emit it; then the handler's
\* acknowledgement, or the end of this round of the tick.
StackListEmit(t) ==
    /\ task[t].pc = "emit"
    /\ received' = BroadcastStackList
    /\ task' = [task EXCEPT ![t] =
          IF task[t].op = "tick" THEN IdleTask ELSE Done(task[t], "ok", TRUE)]
    /\ UNCHANGED <<connVars, stack_cache, diskVars, engine, cacheVars, termVars>>

\* ------------------------------------------------------------ stack status
\* i32::MAX, written in decimal.
I32MaxDigits == <<"2", "1", "4", "7", "4", "8", "3", "6", "4", "7">>

DigitChars == <<"0", "1", "2", "3", "4", "5", "6", "7", "8", "9">>

IsDigit(ch) == \E k \in 1 .. 10 : DigitChars[k] = ch

DigitValue(ch) == (CHOOSE k \in 1 .. 10 : DigitChars[k] = ch) - 1

\* w is in s at position p.
IsAt(s, w, p) == p + Len(w) - 1 <= Len(s) /\ SubSeq(s, p, p + Len(w) - 1) = w

\* str::starts_with
starts_with(s, w) == IsAt(s, w, 1)

\* str::contains
contains(s, w) == \E p \in 1 .. Len(s) : IsAt(s, w, p)

\* \d+ from position p: the position after the longest run of digits.
RECURSIVE DigitRun(_, _)
DigitRun(s, p) == IF p <= Len(s) /\ IsDigit(s[p]) THEN DigitRun(s, p + 1) ELSE p

\* The regular expression word\((\d+)\) tried at position p: group 1, or None.
CaptureAt(s, w, p) ==
    LET a == p + Len(w) + 1
        q == DigitRun(s, a)
    IN IF IsAt(s, w \o <<"(">>, p) /\ q > a /\ q <= Len(s) /\ s[q] = ")"
       THEN Some(SubSeq(s, a, q - 1)) ELSE None

\* Regex::captures: the leftmost match.
RECURSIVE CapturesFrom(_, _, _)
CapturesFrom(s, w, p) ==
    IF p > Len(s) THEN None
    ELSE IF CaptureAt(s, w, p) # None THEN CaptureAt(s, w, p)
    ELSE CapturesFrom(s, w, p + 1)

\* The decimal text ds is at most i32::MAX (ds has as many digits as it).
RECURSIVE LeqDigits(_, _, _)
LeqDigits(ds, max, k) ==
    IF k > Len(ds) THEN TRUE
    ELSE IF DigitValue(ds[k]) < DigitValue(max[k]) THEN TRUE
    ELSE IF DigitValue(ds[k]) > DigitValue(max[k]) THEN FALSE
    ELSE LeqDigits(ds, max, k + 1)

RECURSIVE DecimalValue(_, _)
DecimalValue(ds, acc) ==
    IF ds = <<>> THEN acc ELSE DecimalValue(Tail(ds), 10 * acc + DigitValue(Head(ds)))

\* str::parse::<i32>().ok() of a run of digits: None when it does not fit.
RECURSIVE StripZeros(_)
StripZeros(ds) == IF Len(ds) > 1 /\ Head(ds) = "0" THEN StripZeros(Tail(ds)) ELSE ds

parse_i32(ds) ==
    LET d == StripZeros(ds)
    IN IF Len(d) > Len(I32MaxDigits) THEN None
       ELSE IF Len(d) = Len(I32MaxDigits) /\ ~LeqDigits(d, I32MaxDigits, 1) THEN None
       ELSE Some(DecimalValue(d, 0))

\* captures(..).and_then(get(1)).and_then(parse).unwrap_or(0)
count_of(s, w) ==
    LET c == CapturesFrom(s, w, 1)
    IN IF c = None THEN 0
       ELSE IF parse_i32(c[1]) = None THEN 0
       ELSE parse_i32(c[1])[1]

RunningWord == <<"r", "u", "n", "n", "i", "n", "g">>

ExitedWord == <<"e", "x", "i", "t", "e", "d">>

CreatedWord == <<"c", "r", "e", "a", "t", "e", "d">>

\* status_convert
status_convert(s) ==
    IF starts_with(s, CreatedWord) THEN CREATED_STACK
    ELSE LET running_count == count_of(s, RunningWord)
             exited_count == count_of(s, ExitedWord)
         IN IF running_count > 0 /\ exited_count > 0 THEN RUNNING_AND_EXITED
            ELSE IF running_count > 0 THEN RUNNING
            ELSE IF exited_count > 0 THEN EXITED
            ELSE IF contains(s, RunningWord) THEN RUNNING
            ELSE IF contains(s, ExitedWord) THEN EXITED
            ELSE UNKNOWN

\* The status text "running(N), exited(M)" of `docker compose ls`, N and M in
\* decimal.
StatusText(n, m) ==
    RunningWord \o <<"(">> \o n \o <<")", ",", " ">> \o ExitedWord \o <<"(">> \o m \o <<")">>

\* `docker compose ls` lists the project with n running and m exited containers.
ComposeLs(n, m) ==
    /\ ls_status' = StatusText(n, m)
    /\ UNCHANGED <<refVars, connVars, received, stack_cache, diskVars, engine, recreate_cache,
                   image_update_cache, termVars, task, status, agents, password,
                   checks>>

\* Stack::get_stack_list: stack.status = status_convert(&entry.status)
ConvertStatus ==
    /\ status' = status_convert(ls_status)
    /\ UNCHANGED <<refVars, connVars, received, stack_cache, diskVars, engine, recreate_cache,
                   image_update_cache, termVars, task, ls_status, agents, password,
                   checks>>

\* ------------------------------------------------------ image update check
\* The digests of the model; None stands for a digest that could not be fetched
\* and for a service without the ignore label.
Digests == {"d1", "d2"}

OptDigests == {None} \cup {Some(x) : x \in Digests}

\* A variant of has_update that does not look at the ignore label.
has_updateNoIgnore(remote_digest, local_digest, ignore_digest) ==
    remote_digest # None /\ local_digest # None /\ remote_digest[1] # local_digest[1]

\* check_single_image: the comparison of the two digests and the ignore label.
has_update(remote_digest, local_digest, ignore_digest) ==
    IF remote_digest # None /\ local_digest # None
    THEN IF remote_digest[1] # local_digest[1]
         THEN IF ignore_digest # None
              THEN IF remote_digest[1] = ignore_digest[1] THEN FALSE ELSE TRUE
              ELSE TRUE
         ELSE FALSE
    ELSE FALSE

\* check_single_image: the row written for the stack's service (ignore is kept
\* beside the row for the record; the table has no such column).
check_single_image(stack_name, service_name, remote_digest, local_digest, ignore_digest) ==
    /\ image_update_cache' =
          [image_update_cache EXCEPT ![stack_name][service_name] =
              [checked |-> TRUE, local_digest |-> local_digest,
               remote_digest |-> remote_digest,
               has_update |-> has_update(remote_digest, local_digest, ignore_digest),
               ignore |-> ignore_digest]]
    /\ UNCHANGED <<refVars, connVars, received, stack_cache, diskVars, engine, recreate_cache,
                   termVars, task, ls_status, status, agents, password>>

\* ----------------------------------------------------- serviceStatusList
\* serde_yaml::from_str(compose_yaml), services.<svc>.image, "" without one.  The
\* compose texts of the model stand for these documents: "a" declares the
\* services s and u, both with image a; "b" declares s with image b and u without
\* an image key; any other text declares no services.
compose_image(yaml, svc) ==
    IF yaml = <<>> \/ ~ValidYaml(yaml) THEN ""
    ELSE IF yaml[1] = "a" THEN "a"
    ELSE IF yaml[1] = "b" /\ svc = "s" THEN "b"
    ELSE ""

\* handle_service_status_list: the services inserted into recreate_status.
recreate_status(yaml, ps) ==
    {svc \in ComposeServices :
        /\ ps[svc] # NoContainer
        /\ compose_image(yaml, svc) # ""
        /\ ps[svc] # "" /\ ps[svc] # compose_image(yaml, svc)}

\* handle_service_status_list; ps is what `docker compose ps` reports, psOk
\* whether the command could be run.
ServiceStatusList(t, c, via, name, ps, psOk) ==
    /\ connected[c] /\ SlotFree(t)
    /\ IF ~check_login(c)
       THEN /\ task' = [task EXCEPT ![t] = NotLoggedIn("serviceStatusList", c, via, name)]
            /\ UNCHANGED recreate_cache
       ELSE IF ~GetStackFound(name)
       THEN /\ task' = [task EXCEPT ![t] =
                  [NewTask("serviceStatusList", c, via, name) EXCEPT
                      !.pc = "done", !.ack = "notFound"]]
            /\ UNCHANGED recreate_cache
       ELSE IF ~psOk
       THEN /\ task' = [task EXCEPT ![t] =
                  [NewTask("serviceStatusList", c, via, name) EXCEPT
                      !.pc = "done", !.ack = "failed"]]
            /\ UNCHANGED recreate_cache
       ELSE LET rs == recreate_status(GetStackLoaded(name).compose_yaml, ps)
            IN /\ recreate_cache' = [recreate_cache EXCEPT ![name] = Some(rs # {})]
               /\ task' = [task EXCEPT ![t] =
                     [NewTask("serviceStatusList", c, via, name) EXCEPT
                         !.pc = "done", !.ack = "ok", !.recreate = rs, !.ps = ps]]
    /\ UNCHANGED <<refVars, connVars, received, stack_cache, diskVars, engine, termVars,
                   image_update_cache, ls_status, status, agents, password,
                   checks>>

\* handle_get_stack
GetStack(t, c, via, name) ==
    /\ connected[c] /\ SlotFree(t)
    /\ task' = [task EXCEPT ![t] =
          IF ~check_login(c) THEN NotLoggedIn("getStack", c, via, name)
          ELSE IF name = <<>> THEN
              [NewTask("getStack", c, via, name) EXCEPT !.pc = "done", !.ack = "NameRequired"]
          ELSE IF ~GetStackFound(name) THEN
              [NewTask("getStack", c, via, name) EXCEPT !.pc = "done", !.ack = "notFound"]
          ELSE [NewTask("getStack", c, via, name) EXCEPT
                   !.pc = "done", !.ack = "ok", !.loaded = GetStackLoaded(name)]]
    /\ UNCHANGED <<connVars, received, stack_cache, diskVars, engine, cacheVars, termVars>>

\* handle_save_stack: Stack::save, then refresh and broadcast.
SaveStack(t, c, via, name, compose, env, override, isAdd) ==
    /\ connected[c] /\ SlotFree(t)
    /\ IF ~check_login(c)
       THEN /\ task' = [task EXCEPT ![t] = NotLoggedIn("saveStack", c, via, name)]
            /\ UNCHANGED <<received, stack_cache, diskVars>>
       ELSE LET r == Save(disk[name], name, compose, env, override, isAdd)
                texts == [kind |-> "save", compose |-> compose, env |-> env,
                          override |-> override]
            IN /\ disk' = [disk EXCEPT ![name] = r.dir]
               /\ task' = [task EXCEPT ![t] =
                     [NewTask("saveStack", c, via, name) EXCEPT
                         !.pc = "done", !.saveRes = r.res, !.disk0 = disk[name],
                         !.ack = r.res, !.bcast = (r.res = "ok")]]
               /\ IF r.res = "ok"
                  THEN /\ broadcast_stack_list([disk EXCEPT ![name] = r.dir])
                       /\ lastWrite' = [lastWrite EXCEPT ![name] = texts]
                       /\ lastOk' = [lastOk EXCEPT ![name] = texts]
                  ELSE UNCHANGED <<received, stack_cache, lastWrite, lastOk>>
    /\ UNCHANGED <<connVars, engine, cacheVars, termVars>>

\* ---------------------------------------------------------------- terminals
\* The handlers that call spawn_persistent.  joinContainerLog is followed up to
\* the return of spawn_persistent, mainTerminal through its replay and its
\* forwarding task as well.
PersistOps == {"joinContainerLog", "mainTerminal"}

\* Exit codes a child may end with on its own.
ExitCodes == {0, 1}

\* portable_pty reports a child ended by a signal with exit code 1.
KilledCode == 1

\* Commands waiting in a terminal's channel that clients may add to.
MaxQueue == 1

\* spawn_pty_inner: the PtyTerminal of a freshly spawned child.
NewTerm(name, mgr, t, stack, interactive) ==
    [used |-> TRUE, name |-> name, mgr |-> mgr, owner |-> t, stack |-> stack,
     interactive |-> interactive, alive |-> TRUE, status |-> None, exit |-> None,
     cmdQ |-> <<>>, thread |-> "loop", size |-> DefaultSize, autoRemove |-> FALSE,
     out |-> 0, pipe |-> <<>>, held |-> <<>>, buffer |-> <<>>, pushLog |-> <<>>,
     sent |-> <<>>, sink |-> <<>>, subs |-> [s \in SubIds |-> NoSub]]

\* The slots of the model that hold no terminal; a new terminal takes the lowest.
HasFreeSlot == \E i \in TermIds : ~terms[i].used

FreeSlot == CHOOSE i \in TermIds : ~terms[i].used /\ \A j \in TermIds : ~terms[j].used => i <= j

\* The caller drops its handle of a terminal whose command thread has returned:
\* the slot holds nothing any more.
Drop(ts, i) == IF ts[i].thread = "done" THEN [ts EXCEPT ![i] = FreeTerm] ELSE ts

\* cmd_tx.send: fails, silently, once the command thread has returned.
Send(ts, i, cmd) ==
    IF ts[i].thread = "done" THEN ts ELSE [ts EXCEPT ![i].cmdQ = Append(@, cmd)]

\* A variant of ExitPublished that does not wait.
ExitPublishedEarly(i) == TRUE

\* PtyTerminal::wait_for_exit returns once the exit watch holds Some(code).
ExitPublished(i) == terms[i].exit # None

\* TerminalManager::has
has(m, name) == registry[m][name] # 0

\* TerminalManager::remove: take the entry out of the map and close what it held.
RemoveRegistry(m, name) == [registry EXCEPT ![m][name] = 0]

RemoveTerms(m, name) ==
    IF has(m, name) THEN Send(terms, registry[m][name], "Close") ELSE terms

\* The child process ends on its own.
ChildExit(i, code) ==
    /\ terms[i].used /\ terms[i].alive
    /\ terms' = [terms EXCEPT ![i].alive = FALSE, ![i].status = Some(code)]
    /\ UNCHANGED <<connVars, received, stack_cache, diskVars, engine, cacheVars, registry, task>>

\* Command thread, recv_timeout returned Close: kill, wait, publish the code.
CmdClose(i) ==
    /\ terms[i].used /\ terms[i].thread = "loop" /\ terms[i].cmdQ # <<>>
    /\ Head(terms[i].cmdQ) = "Close"
    /\ LET final == IF terms[i].alive THEN Some(KilledCode) ELSE terms[i].status
       IN terms' = [terms EXCEPT ![i].alive = FALSE, ![i].status = final,
                                 ![i].exit = final, ![i].thread = "done",
                                 ![i].cmdQ = <<>>]
    /\ UNCHANGED <<connVars, received, stack_cache, diskVars, engine, cacheVars, registry, task>>

\* Command thread, recv_timeout returned Resize.
CmdResize(i) ==
    /\ terms[i].used /\ terms[i].thread = "loop" /\ terms[i].cmdQ # <<>>
    /\ Head(terms[i].cmdQ) = "Resize"
    /\ terms' = [terms EXCEPT ![i].size = OtherSize, ![i].cmdQ = Tail(@)]
    /\ UNCHANGED <<connVars, received, stack_cache, diskVars, engine, cacheVars, registry, task>>

\* Command thread, recv_timeout returned Write and write_all succeeded.
CmdWrite(i) ==
    /\ terms[i].used /\ terms[i].thread = "loop" /\ terms[i].cmdQ # <<>>
    /\ Head(terms[i].cmdQ) = "Write"
    /\ terms' = [terms EXCEPT ![i].cmdQ = Tail(@)]
    /\ UNCHANGED <<connVars, received, stack_cache, diskVars, engine, cacheVars, registry, task>>

\* Command thread, write_all failed (the child is gone): leave the loop, wait for
\* the child and publish its code.
CmdWriteFail(i) ==
    /\ terms[i].used /\ terms[i].thread = "loop" /\ terms[i].cmdQ # <<>>
    /\ Head(terms[i].cmdQ) = "Write" /\ ~terms[i].alive
    /\ terms' = [terms EXCEPT ![i].exit = terms[i].status, ![i].thread = "done",
                              ![i].cmdQ = <<>>]
    /\ UNCHANGED <<connVars, received, stack_cache, diskVars, engine, cacheVars, registry, task>>

\* A variant of CmdPoll that publishes a code at every timeout, exit or not.
CmdPollEager(i) ==
    /\ terms[i].used /\ terms[i].thread = "loop" /\ terms[i].cmdQ = <<>>
    /\ terms' = IF terms[i].alive
                THEN [terms EXCEPT ![i].exit = Some(0)]
                ELSE [terms EXCEPT ![i].exit = terms[i].status, ![i].thread = "done"]
    /\ UNCHANGED <<connVars, received, stack_cache, diskVars, engine, cacheVars, registry, task>>

\* Command thread, recv_timeout timed out and try_wait saw the child gone.
CmdPoll(i) ==
    /\ terms[i].used /\ terms[i].thread = "loop" /\ terms[i].cmdQ = <<>>
    /\ ~terms[i].alive
    /\ terms' = [terms EXCEPT ![i].exit = terms[i].status, ![i].thread = "done"]
    /\ UNCHANGED <<connVars, received, stack_cache, diskVars, engine, cacheVars, registry, task>>

\* Who holds the Arc of terminal i: a registry entry, an exec or spawn_persistent
\* call in progress, or the auto-remove task while it waits for the exit.
Held(i) ==
    \/ \E m \in Managers, n \in TermNames : registry[m][n] = i
    \/ \E t \in Tasks : task[t].term = i
    \/ terms[i].autoRemove
    \/ \E s \in SubIds : terms[i].subs[s].conn # 0 /\ terms[i].subs[s].state # "exited"

\* Command thread, recv_timeout returned Disconnected: every handle was dropped;
\* wait for the child and publish its code, which no receiver is left to read.
\* Every holder of a handle keeps it until the exit is published, so no
\* specification below has a state in which this step is enabled.
CmdDisconnected(i) ==
    /\ terms[i].used /\ terms[i].thread = "loop" /\ terms[i].cmdQ = <<>>
    /\ ~Held(i) /\ ~terms[i].alive
    /\ terms' = [terms EXCEPT ![i] = FreeTerm]
    /\ UNCHANGED <<connVars, received, stack_cache, diskVars, engine, cacheVars, registry, task>>

\* The auto-remove task of spawn_persistent: after the exit, remove the name.
AutoRemove(i) ==
    /\ terms[i].used /\ terms[i].autoRemove /\ ExitPublished(i)
    /\ registry' = RemoveRegistry(terms[i].mgr, terms[i].name)
    /\ terms' = IF \/ \E t \in Tasks : task[t].term = i
                   \/ \E s \in SubIds :
                         terms[i].subs[s].conn # 0 /\ terms[i].subs[s].state # "exited"
                THEN [terms EXCEPT ![i].autoRemove = FALSE]
                ELSE Drop([terms EXCEPT ![i].autoRemove = FALSE], i)
    /\ UNCHANGED <<connVars, received, stack_cache, diskVars, engine, cacheVars, task>>

\* ------------------------------------------------- output of a terminal
\* const BUFFER_LIMIT
BUFFER_LIMIT == 100

\* mpsc::channel::<Vec<u8>>(256) between the reader thread and the fan-out task,
\* and broadcast::channel(256) to the subscribers: the model's capacities.
PipeCap == 2

RingCap == 2

\* The bytes of the k-th read of the reader thread.  "hi" and "lo" are the two
\* bytes of one two-byte character, which a read boundary may separate.
ChunkBytes(k) ==
    IF k % 3 = 0 THEN <<"a", "hi">>
    ELSE IF k % 3 = 1 THEN <<"lo", "b">>
    ELSE <<"hi", "lo">>

\* String::from_utf8_lossy of one read: a complete character is decoded, a byte
\* that is part of no complete character becomes the replacement character.
RECURSIVE LossyFrom(_, _)
LossyFrom(b, i) ==
    IF i > Len(b) THEN <<>>
    ELSE IF b[i] = "hi" /\ i < Len(b) /\ b[i + 1] = "lo" THEN <<"e">> \o LossyFrom(b, i + 2)
    ELSE IF b[i] \in {"hi", "lo"} THEN <<"?">> \o LossyFrom(b, i + 1)
    ELSE <<b[i]>> \o LossyFrom(b, i + 1)

from_utf8_lossy(b) == LossyFrom(b, 1)

\* The chunk the fan-out task makes of the k-th read; id is the read's number.
Chunk(k) == [id |-> k, text |-> from_utf8_lossy(ChunkBytes(k))]

\* A variant of push_buffer that, when full, refuses the new chunk.
push_bufferKeepOldest(buffer, data) ==
    IF Len(buffer) >= BUFFER_LIMIT THEN buffer ELSE Append(buffer, data)

\* PtyTerminal::push_buffer: push, then remove(0) if over the limit.
push_buffer(buffer, data) ==
    LET b == Append(buffer, data)
    IN IF Len(b) > BUFFER_LIMIT THEN Tail(b) ELSE b

\* PtyTerminal::get_buffer: buffer.join("")
RECURSIVE get_buffer(_)
get_buffer(buffer) ==
    IF buffer = <<>> THEN <<>> ELSE Head(buffer).text \o get_buffer(Tail(buffer))

\* TerminalManager::get_buffer: String::new() for a name with no entry.
manager_get_buffer(m, name) ==
    IF has(m, name) THEN get_buffer(terms[registry[m][name]].buffer) ELSE <<>>

\* Reader thread: one read of the pty, then blocking_send into the channel to the
\* fan-out task (which waits only while that channel is full).
ReaderRead(i, max) ==
    /\ terms[i].used /\ terms[i].out < max
    /\ Len(terms[i].pipe) < PipeCap
    /\ terms' = [terms EXCEPT ![i].out = @ + 1, ![i].pipe = Append(@, terms[i].out + 1)]
    /\ UNCHANGED <<connVars, received, stack_cache, diskVars, engine, cacheVars, registry, task>>

\* Fan-out task: output_async_rx.recv(), from_utf8_lossy, push_buffer.
FanOutPush(i) ==
    /\ terms[i].used /\ terms[i].held = <<>> /\ terms[i].pipe # <<>>
    /\ LET c == Chunk(Head(terms[i].pipe))
       IN terms' = [terms EXCEPT ![i].pipe = Tail(@), ![i].held = <<c>>,
                                 ![i].buffer = push_buffer(@, c),
                                 ![i].pushLog = Append(@, c)]
    /\ UNCHANGED <<connVars, received, stack_cache, diskVars, engine, cacheVars, registry, task>>

\* Fan-out task: broadcast_tx.send, which never waits for a receiver.
FanOutSend(i) ==
    /\ terms[i].used /\ terms[i].held # <<>>
    /\ terms' = [terms EXCEPT ![i].held = <<>>, ![i].sent = Append(@, terms[i].held[1])]
    /\ UNCHANGED <<connVars, received, stack_cache, diskVars, engine, cacheVars, registry, task>>

\* A variant of recv that does not move the receiver's cursor.
recvAgain(sub, sent) ==
    IF Len(sent) - sub.cur > RingCap THEN [sub EXCEPT !.state = "ended"]
    ELSE [sub EXCEPT !.got = Append(@, sent[sub.cur + 1].id)]

\* broadcast::Receiver::recv in `while let Ok(..) = rx.recv().await`: the next
\* message, or Lagged once more than the capacity is waiting, which ends the loop.
recv(sub, sent) ==
    IF Len(sent) - sub.cur > RingCap THEN [sub EXCEPT !.state = "ended"]
    ELSE [sub EXCEPT !.got = Append(@, sent[sub.cur + 1].id), !.cur = @ + 1]

\* terminal.subscribe(): a receiver that sees what is sent from now on.
Subscribe(i, s) ==
    /\ terms[i].used /\ terms[i].subs[s].state = "none"
    /\ terms' = [terms EXCEPT ![i].subs[s] =
                    [NoSub EXCEPT !.state = "live", !.cur = Len(terms[i].sent)]]
    /\ UNCHANGED <<connVars, received, stack_cache, diskVars, engine, cacheVars, registry, task>>

\* The forwarding task of a subscriber takes its next message.
SubRecv(i, s) ==
    /\ terms[i].used /\ terms[i].subs[s].state = "live"
    /\ terms[i].subs[s].cur < Len(terms[i].sent)
    /\ terms' = [terms EXCEPT ![i].subs[s] = recv(@, terms[i].sent)]
    /\ UNCHANGED <<connVars, received, stack_cache, diskVars, engine, cacheVars, registry, task>>

\* The forwarding task ends (forward_task.abort()): its receiver is dropped.
SubVanish(i, s) ==
    /\ terms[i].used /\ terms[i].subs[s].state = "live"
    /\ terms' = [terms EXCEPT ![i].subs[s].state = "ended"]
    /\ UNCHANGED <<connVars, received, stack_cache, diskVars, engine, cacheVars, registry, task>>

\* --------------------------------------------------- TerminalManager::exec
\* has(name), then spawn_pty_inner.
ExecCheck(t) ==
    /\ task[t].pc = "exec"
    /\ IF has(StackMgr, task[t].name)
       THEN /\ task' = [task EXCEPT ![t].result = "errRunning", ![t].pc = "post"]
            /\ UNCHANGED terms
       ELSE \E spawned \in BOOLEAN :
              IF spawned
              THEN /\ HasFreeSlot
                   /\ terms' = [terms EXCEPT ![FreeSlot] =
                                  NewTerm(task[t].name, StackMgr, t, task[t].stack, FALSE)]
                   /\ task' = [task EXCEPT ![t].term = FreeSlot, ![t].pc = "insert"]
              ELSE /\ task' = [task EXCEPT ![t].result = "errSpawn", ![t].pc = "post"]
                   /\ UNCHANGED terms
    /\ UNCHANGED <<connVars, received, stack_cache, diskVars, engine, cacheVars, registry>>

\* The line exec shows before the command's output: "$ <file> <args>".
Banner == [id |-> 0, text |-> <<"$">>]

\* terminals.insert(name, terminal); terminal.push_buffer(&cmd_line);
\* output_tx.send(cmd_line); terminal.subscribe() for the forwarding task.
ExecInsert(t) ==
    /\ task[t].pc = "insert" /\ task[t].op \notin PersistOps
    /\ registry' = [registry EXCEPT ![StackMgr][task[t].name] = task[t].term]
    /\ terms' = [terms EXCEPT ![task[t].term].buffer = push_buffer(@, Banner),
                              ![task[t].term].pushLog = Append(@, Banner),
                              ![task[t].term].sink = Append(@, Banner.id),
                              ![task[t].term].subs[1] =
                                  [NoSub EXCEPT !.state = "live",
                                                !.cur = Len(terms[task[t].term].sent)]]
    /\ task' = [task EXCEPT ![t].pc = "wait"]
    /\ UNCHANGED <<connVars, received, stack_cache, diskVars, engine, cacheVars>>

\* exec's forwarding task: rx.recv(), caller_tx.send(msg); Lagged ends it.
ExecForward(i) ==
    /\ terms[i].used /\ ~terms[i].interactive
    /\ terms[i].subs[1].state = "live"
    /\ terms[i].subs[1].cur < Len(terms[i].sent)
    /\ LET sub == recv(terms[i].subs[1], terms[i].sent)
       IN terms' = [terms EXCEPT ![i].subs[1] = sub,
                                 ![i].sink = IF sub.state = "live"
                                             THEN Append(@, sub.got[Len(sub.got)])
                                             ELSE @]
    /\ UNCHANGED <<connVars, received, stack_cache, diskVars, engine, cacheVars, registry, task>>

\* wait_for_exit returned; forward_task.abort(); remove(name); Ok(exit_code).  childLive remembers
\* whether the child was still running when exec returned, ran that a child of
\* this handler ran to its termination.
ExecWait(t) ==
    /\ task[t].pc = "wait" /\ ExitPublished(task[t].term)
    /\ registry' = RemoveRegistry(StackMgr, task[t].name)
    /\ terms' = Drop(RemoveTerms(StackMgr, task[t].name), task[t].term)
    /\ task' = [task EXCEPT ![t].pc = "post", ![t].term = 0,
                            ![t].result =
                                IF terms[task[t].term].exit = Some(0) THEN "ok0" ELSE "okN",
                            ![t].childLive = @ \/ terms[task[t].term].alive,
                            ![t].ran = TRUE]
    /\ UNCHANGED <<connVars, received, stack_cache, diskVars, engine, cacheVars>>

\* ------------------------------------------------------ lifecycle handlers
\* The part every lifecycle handler starts with: check_login, the name checks,
\* Stack::get_stack; then the first exec under the stack's compose terminal name.
Begin(op, c, via, name, needName) ==
    IF ~check_login(c) THEN NotLoggedIn(op, c, via, name)
    ELSE IF needName /\ name = <<>> THEN
        [NewTask(op, c, via, name) EXCEPT !.pc = "done", !.ack = "NameRequired"]
    ELSE IF ~GetStackFound(name) THEN
        [NewTask(op, c, via, name) EXCEPT !.pc = "done", !.ack = "notFound"]
    ELSE [NewTask(op, c, via, name) EXCEPT
             !.pc = "exec", !.phase = 1, !.disk0 = disk[name],
             !.started = GetStackStarted(name),
             !.name = get_compose_terminal_name(LocalEndpoint, name)]

ComposeOps == {"startStack", "stopStack", "restartStack", "downStack"}

ServiceOps == {"startService", "stopService", "restartService"}

\* handle_compose_action, up to the exec
ComposeAction(t, c, via, op, name) ==
    /\ connected[c] /\ SlotFree(t) /\ op \in ComposeOps
    /\ task' = [task EXCEPT ![t] = Begin(op, c, via, name, TRUE)]
    /\ UNCHANGED <<connVars, received, stack_cache, diskVars, engine, cacheVars, termVars>>

\* handle_service_action, up to the exec
ServiceAction(t, c, via, op, name) ==
    /\ connected[c] /\ SlotFree(t) /\ op \in ServiceOps
    /\ task' = [task EXCEPT ![t] = Begin(op, c, via, name, TRUE)]
    /\ UNCHANGED <<connVars, received, stack_cache, diskVars, engine, cacheVars, termVars>>

\* handle_update_stack, up to the pull
UpdateStack(t, c, via, name) ==
    /\ connected[c] /\ SlotFree(t)
    /\ task' = [task EXCEPT ![t] = Begin("updateStack", c, via, name, FALSE)]
    /\ UNCHANGED <<connVars, received, stack_cache, diskVars, engine, cacheVars, termVars>>

\* handle_update_service, up to the pull
UpdateService(t, c, via, name) ==
    /\ connected[c] /\ SlotFree(t)
    /\ task' = [task EXCEPT ![t] = Begin("updateService", c, via, name, FALSE)]
    /\ UNCHANGED <<connVars, received, stack_cache, diskVars, engine, cacheVars, termVars>>

\* handle_delete_stack, up to the `down`
DeleteStack(t, c, via, name, force, deleteStackFiles) ==
    /\ connected[c] /\ SlotFree(t)
    /\ task' = [task EXCEPT ![t] =
          [Begin(IF force THEN "forceDeleteStack" ELSE "deleteStack", c, via, name, FALSE)
              EXCEPT !.delFiles = force \/ deleteStackFiles]]
    /\ UNCHANGED <<connVars, received, stack_cache, diskVars, engine, cacheVars, termVars>>

\* handle_deploy_stack, up to the `up`: Stack::save comes first.
DeployStack(t, c, via, name, compose, env, override, isAdd) ==
    /\ connected[c] /\ SlotFree(t)
    /\ IF ~check_login(c)
       THEN /\ task' = [task EXCEPT ![t] = NotLoggedIn("deployStack", c, via, name)]
            /\ UNCHANGED diskVars
       ELSE LET r == Save(disk[name], name, compose, env, override, isAdd)
                texts == [kind |-> "save", compose |-> compose, env |-> env,
                          override |-> override]
                nt == [NewTask("deployStack", c, via, name) EXCEPT
                          !.saveRes = r.res, !.disk0 = disk[name], !.texts = texts]
            IN /\ disk' = [disk EXCEPT ![name] = r.dir]
               /\ IF r.res = "ok"
                  THEN /\ task' = [task EXCEPT ![t] =
                             [nt EXCEPT !.pc = "exec", !.phase = 1,
                                        !.name = get_compose_terminal_name(LocalEndpoint, name)]]
                       /\ lastWrite' = [lastWrite EXCEPT ![name] = texts]
                       /\ UNCHANGED lastOk
                  ELSE /\ task' = [task EXCEPT ![t] =
                             [nt EXCEPT !.pc = "done", !.ack = r.res]]
                       /\ UNCHANGED <<lastWrite, lastOk>>
    /\ UNCHANGED <<connVars, received, stack_cache, engine, cacheVars, termVars>>

\* The acknowledgement a handler derives from exec's result.
AckOf(result) ==
    IF result = "ok0" THEN "ok"
    ELSE IF result = "okN" THEN "failed"
    ELSE IF result = "errRunning" THEN "alreadyRunning"
    ELSE "spawnFailed"

DeletedTexts == [kind |-> "delete", compose |-> <<>>, env |-> <<>>, override |-> <<>>]

\* handle_compose_action / handle_service_action after the exec: refresh, broadcast,
\* then the acknowledgement.
PostAction(t) ==
    /\ task[t].pc = "post" /\ task[t].op \in ComposeOps \cup ServiceOps
    /\ broadcast_stack_list(disk)
    /\ task' = [task EXCEPT ![t] = Done(task[t], AckOf(task[t].result), TRUE)]
    /\ UNCHANGED <<connVars, diskVars, engine, cacheVars, termVars>>

\* handle_deploy_stack after the exec: broadcast only on Ok(0).
PostDeploy(t) ==
    /\ task[t].pc = "post" /\ task[t].op = "deployStack"
    /\ task' = [task EXCEPT ![t] =
                   Done(task[t], AckOf(task[t].result), task[t].result = "ok0")]
    /\ IF task[t].result = "ok0"
       THEN /\ broadcast_stack_list(disk)
            /\ lastOk' = [lastOk EXCEPT ![task[t].stack] = task[t].texts]
       ELSE UNCHANGED <<received, stack_cache, lastOk>>
    /\ UNCHANGED <<connVars, disk, lastWrite, engine, cacheVars, termVars>>

\* handle_update_stack after each exec: pull, then (if the stack is started) up
\* under "<name>-up" and image prune under "<name>-prune".
PostUpdateStack(t) ==
    /\ task[t].pc = "post" /\ task[t].op = "updateStack"
    /\ LET base == get_compose_terminal_name(LocalEndpoint, task[t].stack)
           finish == /\ broadcast_stack_list(disk)
                     /\ task' = [task EXCEPT ![t] = Done(task[t], "ok", TRUE)]
           fail(msg) == /\ task' = [task EXCEPT ![t] = Done(task[t], msg, FALSE)]
                        /\ UNCHANGED <<received, stack_cache>>
           next(ph, nm) == /\ task' = [task EXCEPT ![t].pc = "exec", ![t].phase = ph,
                                                   ![t].name = nm, ![t].result = "none"]
                           /\ UNCHANGED <<received, stack_cache>>
       IN IF task[t].phase = 1
          THEN IF task[t].result # "ok0" THEN fail("failedPull")
               ELSE IF task[t].started THEN next(2, base \o UpSuffix)
               ELSE finish
          ELSE IF task[t].phase = 2
          THEN IF task[t].result # "ok0" THEN fail("failedUp")
               ELSE next(3, base \o PruneSuffix)
          ELSE finish
    /\ UNCHANGED <<connVars, diskVars, engine, cacheVars, termVars>>

\* handle_update_service after each exec: pull, then up under "<name>-up"; both
\* results are ignored.
PostUpdateService(t) ==
    /\ task[t].pc = "post" /\ task[t].op = "updateService"
    /\ IF task[t].phase = 1
       THEN /\ task' = [task EXCEPT ![t].pc = "exec", ![t].phase = 2, ![t].result = "none",
                           ![t].name = get_compose_terminal_name(LocalEndpoint, task[t].stack)
                                           \o UpSuffix]
            /\ UNCHANGED <<received, stack_cache>>
       ELSE /\ broadcast_stack_list(disk)
            /\ task' = [task EXCEPT ![t] = Done(task[t], "ok", TRUE)]
    /\ UNCHANGED <<connVars, diskVars, engine, cacheVars, termVars>>

\* handle_delete_stack after the exec (its result is ignored): remove_dir_all if
\* asked to, refresh, broadcast, "Deleted".
PostDelete(t) ==
    /\ task[t].pc = "post" /\ task[t].op \in {"deleteStack", "forceDeleteStack"}
    /\ LET name == task[t].stack
       IN /\ IF task[t].delFiles
             THEN /\ disk' = [disk EXCEPT ![name] = AbsentDir]
                  /\ lastWrite' = [lastWrite EXCEPT ![name] =
                                     IF disk[name].exists THEN DeletedTexts ELSE @]
             ELSE UNCHANGED <<disk, lastWrite>>
          /\ lastOk' = [lastOk EXCEPT ![name] = DeletedTexts]
    /\ broadcast_stack_list(IF task[t].delFiles
                            THEN [disk EXCEPT ![task[t].stack] = AbsentDir] ELSE disk)
    /\ task' = [task EXCEPT ![t] = Done(task[t], "ok", TRUE)]
    /\ UNCHANGED <<connVars, engine, cacheVars, termVars>>

\* ------------------------------------------------------- terminal handlers
\* handle_join_container_log up to spawn_persistent (on the global manager).
JoinContainerLog(t, c, via, name, service) ==
    /\ connected[c] /\ SlotFree(t)
    /\ task' = [task EXCEPT ![t] =
          IF ~check_login(c) THEN NotLoggedIn("joinContainerLog", c, via, name)
          ELSE IF ~GetStackFound(name) THEN
              [NewTask("joinContainerLog", c, via, name) EXCEPT
                  !.pc = "done", !.ack = "notFound"]
          ELSE [NewTask("joinContainerLog", c, via, name) EXCEPT
                   !.pc = "pcheck",
                   !.name = get_container_log_name(LocalEndpoint, name, service)]]
    /\ UNCHANGED <<connVars, received, stack_cache, diskVars, engine, cacheVars, termVars>>

\* spawn_persistent: return the registered terminal, or spawn one.
PersistCheck(t) ==
    /\ task[t].pc = "pcheck"
    /\ IF has(GlobalMgr, task[t].name)
       THEN /\ task' = [task EXCEPT ![t] =
                  IF task[t].op = "mainTerminal"
                  THEN [task[t] EXCEPT !.pc = "snapshot",
                                       !.term = registry[GlobalMgr][task[t].name]]
                  ELSE Done(task[t], "ok", FALSE)]
            /\ UNCHANGED terms
       ELSE \E spawned \in BOOLEAN :
              IF spawned
              THEN /\ HasFreeSlot
                   /\ terms' = [terms EXCEPT ![FreeSlot] =
                                  NewTerm(task[t].name, GlobalMgr, t, task[t].stack, TRUE)]
                   /\ task' = [task EXCEPT ![t].term = FreeSlot, ![t].pc = "insert"]
              ELSE /\ task' = [task EXCEPT ![t] = Done(task[t], "spawnFailed", FALSE)]
                   /\ UNCHANGED terms
    /\ UNCHANGED <<connVars, received, stack_cache, diskVars, engine, cacheVars, registry>>

\* spawn_persistent: insert, start the auto-remove task, return the terminal; the
\* handler subscribes and acknowledges.
PersistInsert(t) ==
    /\ task[t].pc = "insert" /\ task[t].op \in PersistOps
    /\ registry' = [registry EXCEPT ![GlobalMgr][task[t].name] = task[t].term]
    /\ terms' = [terms EXCEPT ![task[t].term].autoRemove = TRUE]
    /\ task' = [task EXCEPT ![t] =
          IF task[t].op = "mainTerminal" THEN [task[t] EXCEPT !.pc = "snapshot"]
          ELSE Done(task[t], "ok", FALSE)]
    /\ UNCHANGED <<connVars, received, stack_cache, diskVars, engine, cacheVars>>

\* The mainTerminal event (the console is enabled): check_login, then
\* handle_main_terminal up to spawn_persistent.
MainTerminal(t, c) ==
    /\ connected[c] /\ SlotFree(t)
    /\ task' = [task EXCEPT ![t] =
          IF ~check_login(c) THEN NotLoggedIn("mainTerminal", c, "direct", <<>>)
          ELSE [NewTask("mainTerminal", c, "direct", <<>>) EXCEPT
                   !.pc = "pcheck", !.name = MainTerminalName]]
    /\ UNCHANGED <<connVars, received, stack_cache, diskVars, engine, cacheVars, termVars>>

\* The receivers of a terminal that no forwarding task has; a handler's takes the
\* lowest.
FreeSub(i) ==
    CHOOSE s \in SubIds :
        /\ terms[i].subs[s].state = "none"
        /\ \A r \in SubIds : terms[i].subs[r].state = "none" => s <= r

\* handle_main_terminal: terminal.get_buffer() and, if it is not empty, one
\* terminalWrite with it.
JoinSnapshot(t) ==
    /\ task[t].pc = "snapshot"
    /\ \E s \in SubIds : terms[task[t].term].subs[s].state = "none"
    /\ LET i == task[t].term
           s == FreeSub(i)
       IN /\ terms' = [terms EXCEPT ![i].subs[s] =
                         [NoSub EXCEPT !.state = "joining", !.conn = task[t].conn,
                                       !.replay = [k \in 1 .. Len(terms[i].buffer) |->
                                                      terms[i].buffer[k].id]]]
          /\ task' = [task EXCEPT ![t].pc = "subscribe", ![t].sub = s]
    /\ UNCHANGED <<connVars, received, stack_cache, diskVars, engine, cacheVars, registry>>

\* handle_main_terminal: terminal.subscribe(), spawn the forwarding task,
\* acknowledge.
JoinSubscribe(t) ==
    /\ task[t].pc = "subscribe"
    /\ LET i == task[t].term
       IN terms' = [terms EXCEPT ![i].subs[task[t].sub].state = "live",
                                 ![i].subs[task[t].sub].cur = Len(terms[i].sent)]
    /\ task' = [task EXCEPT ![t] = Done(task[t], "ok", FALSE)]
    /\ UNCHANGED <<connVars, received, stack_cache, diskVars, engine, cacheVars, registry>>

\* A handler's forwarding task, after its receive loop has ended:
\* wait_for_exit, then one terminalExit with the code; the task's handle of the
\* terminal is dropped.
ForwardExit(i, s) ==
    /\ terms[i].used /\ terms[i].subs[s].conn # 0
    /\ terms[i].subs[s].state = "ended" /\ ExitPublished(i)
    /\ LET ts == [terms EXCEPT ![i].subs[s].state = "exited",
                               ![i].subs[s].exit = terms[i].exit]
       IN terms' = IF \/ \E m \in Managers, n \in TermNames : registry[m][n] = i
                      \/ \E t \in Tasks : task[t].term = i
                      \/ ts[i].autoRemove
                      \/ \E r \in SubIds : ts[i].subs[r].conn # 0 /\ ts[i].subs[r].state # "exited"
                   THEN ts ELSE Drop(ts, i)
    /\ UNCHANGED <<connVars, received, stack_cache, diskVars, engine, cacheVars, registry, task>>

\* terminalResize: no login check.  Sent directly there is no acknowledgement;
\* through the agent proxy the acknowledgement is ok.
TerminalResize(t, c, via, name) ==
    /\ connected[c] /\ SlotFree(t)
    /\ has(GlobalMgr, name) => Len(terms[registry[GlobalMgr][name]].cmdQ) < MaxQueue
    /\ terms' = IF has(GlobalMgr, name)
                THEN Send(terms, registry[GlobalMgr][name], "Resize") ELSE terms
    /\ task' = [task EXCEPT ![t] =
          [NewTask("terminalResize", c, via, <<>>) EXCEPT
              !.pc = "done", !.ack = IF via = "agent" THEN "ok" ELSE "none"]]
    /\ UNCHANGED <<connVars, received, stack_cache, diskVars, engine, cacheVars, registry>>

\* handle_terminal_input
TerminalInput(t, c, via, name) ==
    /\ connected[c] /\ SlotFree(t)
    /\ has(GlobalMgr, name) => Len(terms[registry[GlobalMgr][name]].cmdQ) < MaxQueue
    /\ IF ~check_login(c)
       THEN /\ task' = [task EXCEPT ![t] = NotLoggedIn("terminalInput", c, via, <<>>)]
            /\ UNCHANGED terms
       ELSE /\ terms' = IF has(GlobalMgr, name)
                        THEN Send(terms, registry[GlobalMgr][name], "Write") ELSE terms
            /\ task' = [task EXCEPT ![t] =
                  [NewTask("terminalInput", c, via, <<>>) EXCEPT
                      !.pc = "done", !.ack = "ok"]]
    /\ UNCHANGED <<connVars, received, stack_cache, diskVars, engine, cacheVars, registry>>

\* handle_terminal_join: the replay buffer of the named terminal as the
\* acknowledgement.  seen remembers how many chunks had been pushed.
TerminalJoin(t, c, via, name) ==
    /\ connected[c] /\ SlotFree(t)
    /\ task' = [task EXCEPT ![t] =
          IF ~check_login(c) THEN NotLoggedIn("terminalJoin", c, via, <<>>)
          ELSE [NewTask("terminalJoin", c, via, <<>>) EXCEPT
                   !.pc = "done", !.ack = "ok",
                   !.buf = manager_get_buffer(GlobalMgr, name),
                   !.seen = IF has(GlobalMgr, name)
                            THEN <<Len(terms[registry[GlobalMgr][name]].pushLog)>>
                            ELSE <<>>]]
    /\ UNCHANGED <<connVars, received, stack_cache, diskVars, engine, cacheVars, termVars>>

\* ==================================================== specification: disk
\* One client, one handler at a time: sequences of saveStack, deployStack,
\* deleteStack, forceDeleteStack and getStack on the stacks directory.
NoEngine == [n \in StackNames |-> "none"]

InitDisk ==
    /\ InitCommon
    /\ \E d \in InitDirs : disk = [n \in StackNames |-> IF n = GoodName THEN d ELSE AbsentDir]
    /\ engine = NoEngine

NextDisk ==
    \/ Connect(1)
    \/ Login(1)
    \/ \E n \in StackNames, x \in StackTexts, a \in BOOLEAN :
          SaveStack(1, 1, "direct", n, x.compose, x.env, x.override, a)
    \/ \E n \in StackNames, x \in StackTexts, a \in BOOLEAN :
          DeployStack(1, 1, "direct", n, x.compose, x.env, x.override, a)
    \/ \E n \in StackNames, f \in BOOLEAN, d \in BOOLEAN :
          DeleteStack(1, 1, "direct", n, f, d)
    \/ \E n \in StackNames : GetStack(1, 1, "direct", n)
    \/ ExecCheck(1)
    \/ ExecInsert(1)
    \/ ExecWait(1)
    \/ PostDeploy(1)
    \/ PostDelete(1)
    \/ \E i \in TermIds, code \in ExitCodes : ChildExit(i, code)
    \/ \E i \in TermIds : CmdPoll(i)

SpecDisk == InitDisk /\ [][NextDisk]_vars

SaveErrors == {"badName", "invalidYaml", "invalidOverride", "invalidEnv", "exists", "notFound"}

\* C5: a step in which Stack::save returns an error (bad name, compose or override
\* YAML that does not parse, a bad one-line .env, isAdd on an existing directory,
\* not-isAdd on a missing one) leaves the stacks directory exactly as it was.
SaveErrorWritesNothing ==
    [][\A t \in Tasks :
          (task'[t] # task[t] /\ task'[t].op \in SaveOps /\ task'[t].saveRes \in SaveErrors)
              => disk' = disk]_vars

\* A save was refused with "Stack name already exists" on a directory holding files.
SaveErrorSeen ==
    \E t \in Tasks :
        /\ task[t].op \in SaveOps /\ task[t].saveRes = "exists"
        /\ task[t].stack = GoodName /\ disk[GoodName].exists
        /\ disk[GoodName] = task[t].disk0

\* C6: after a successful save with no later write, getStack returns the compose,
\* env and override texts that were saved, whatever the directory held before.
SaveGetStackRoundTrip ==
    \A t \in Tasks :
        (/\ task[t].op = "getStack" /\ task[t].ack = "ok"
         /\ lastWrite[task[t].stack].kind = "save")
        => /\ task[t].loaded.compose_yaml = lastWrite[task[t].stack].compose
           /\ task[t].loaded.compose_env = lastWrite[task[t].stack].env
           /\ task[t].loaded.compose_override_yaml = lastWrite[task[t].stack].override

\* A getStack answered after a successful save of these very texts.
RoundTripSeen ==
    \E t \in Tasks :
        /\ task[t].op = "getStack" /\ task[t].ack = "ok"
        /\ lastWrite[task[t].stack].kind = "save"
        /\ task[t].loaded.compose_yaml = lastWrite[task[t].stack].compose

\* The directory holds what a save step of these texts writes: compose.yaml is the
\* compose text; .env and compose.override.yaml are the env and override texts, or
\* do not exist when the text is blank.
Holds(dir, texts) ==
    /\ dir.exists
    /\ dir.files["compose.yaml"] = texts.compose
    /\ \/ dir.files[EnvFile] = texts.env
       \/ TrimEmpty(texts.env) /\ dir.files[EnvFile] = NoFile
    /\ \/ dir.files["compose.override.yaml"] = texts.override
       \/ TrimEmpty(texts.override) /\ dir.files["compose.override.yaml"] = NoFile

\* The calls that the amended statement says leave the directory alone: those
\* refused before the save step or before the `down`, and deleteStack without
\* deleteStackFiles.
LeavesDisk(t) ==
    /\ task[t].pc = "done" /\ task[t].op \in DiskOps
    /\ \/ task[t].ack \in SaveErrors \cup {"NotLoggedIn", "notFound"}
       \/ task[t].op = "deleteStack" /\ ~task[t].delFiles

\* C7 (as amended): the directory holds what the most recent save step wrote
\* (saveStack, or deployStack whether or not its `up` succeeded), or is absent after
\* the most recent removal (deleteStack with deleteStackFiles, forceDeleteStack); a
\* call refused before its save step or `down`, and a deleteStack without
\* deleteStackFiles, leave it as it was.
DiskFollowsLastWrite ==
    /\ \A n \in StackNames :
          /\ lastWrite[n].kind = "save" => Holds(disk[n], lastWrite[n])
          /\ lastWrite[n].kind = "delete" => ~disk[n].exists
    /\ \A t \in Tasks : LeavesDisk(t) => disk[task[t].stack] = task[t].disk0

\* A deployStack answered ok:false after its save step rewrote the directory.
FailedDeployWrote ==
    \E t \in Tasks :
        /\ task[t].op = "deployStack" /\ task[t].pc = "done" /\ task[t].ack = "failed"
        /\ disk[task[t].stack] # task[t].disk0
        /\ Holds(disk[task[t].stack], task[t].texts)

\* C7 (as stated): between calls the directory holds what the most recent call
\* acknowledged ok:true wrote, or is absent if that call was a deleteStack; a call
\* acknowledged ok:false leaves the directory as it was.
DiskFollowsLastSuccess ==
    (\A t \in Tasks : SlotFree(t)) =>
        /\ \A n \in StackNames :
              /\ lastOk[n].kind = "save" => Holds(disk[n], lastOk[n])
              /\ lastOk[n].kind = "delete" => ~disk[n].exists
        /\ \A t \in Tasks :
              (task[t].pc = "done" /\ task[t].op \in DiskOps /\ task[t].ack # "ok")
                  => disk[task[t].stack] = task[t].disk0

\* C30: a directory that a save has written holds exactly one primary compose
\* document and at most one override document, whatever accepted name the
\* document it held before had.
OnePrimaryDocument ==
    \A n \in StackNames :
        (disk[n].exists /\ lastWrite[n].kind = "save") =>
            /\ Cardinality({f \in SeqRange(ACCEPTED_COMPOSE_FILE_NAMES) :
                                FileExists(disk[n], f)}) = 1
            /\ Cardinality({f \in SeqRange(ACCEPTED_COMPOSE_OVERRIDE_FILE_NAMES) :
                                FileExists(disk[n], f)}) <= 1

\* C22: a getStack that succeeds on a managed stack (its directory exists) leaves
\* a running terminal named combined-<endpoint>-<name> registered.
GetStackJoinsCombined ==
    [][\A n \in StackNames :
          (/\ task'[1] # task[1] /\ task'[1].op = "getStack" /\ task'[1].ack = "ok"
           /\ task'[1].stack = n /\ disk[n].exists) =>
              \E i \in TermIds :
                  /\ terms'[i].used /\ terms'[i].alive
                  /\ terms'[i].name = get_combined_terminal_name(LocalEndpoint, n)
                  /\ \E m \in Managers : \E k \in TermNames : registry'[m][k] = i]_vars

\* ==================================================== specification: exec
\* One client whose lifecycle requests on one stack overlap: each task slot runs
\* one handler, and the handlers' steps interleave as they do on the multi-threaded
\* runtime.  The first slot runs any lifecycle operation; the others run startStack
\* and updateService.  The stack is managed (its directory exists) or known only
\* from the engine's listing.
DeployTexts == Texts(<<"a">>, <<>>, <<>>)

InitExec ==
    /\ InitCommon
    /\ \E d \in {AbsentDir, PlainDir}, e \in {"none", "running"} :
          /\ disk = [n \in StackNames |-> IF n = GoodName THEN d ELSE AbsentDir]
          /\ engine = [n \in StackNames |-> IF n = GoodName THEN e ELSE "none"]

NextExec ==
    \/ Connect(1)
    \/ Login(1)
    \/ \E t \in Tasks : ComposeAction(t, 1, "direct", "startStack", GoodName)
    \/ \E t \in Tasks : UpdateService(t, 1, "direct", GoodName)
    \/ ServiceAction(1, 1, "direct", "restartService", GoodName)
    \/ UpdateStack(1, 1, "direct", GoodName)
    \/ \E f \in BOOLEAN : DeleteStack(1, 1, "direct", GoodName, f, f)
    \/ \E a \in BOOLEAN :
          DeployStack(1, 1, "direct", GoodName, DeployTexts.compose, DeployTexts.env,
                      DeployTexts.override, a)
    \/ \E t \in Tasks : ExecCheck(t)
    \/ \E t \in Tasks : ExecInsert(t)
    \/ \E t \in Tasks : ExecWait(t)
    \/ \E t \in Tasks : PostAction(t)
    \/ \E t \in Tasks : PostDeploy(t)
    \/ \E t \in Tasks : PostUpdateStack(t)
    \/ \E t \in Tasks : PostUpdateService(t)
    \/ \E t \in Tasks : PostDelete(t)
    \/ \E i \in TermIds, code \in ExitCodes : ChildExit(i, code)
    \/ \E i \in TermIds : CmdPoll(i)
    \/ \E i \in TermIds : CmdClose(i)

SpecExec == InitExec /\ [][NextExec]_vars

\* C37: a deployStack whose exec was refused because the stack's compose terminal
\* is in use has left the stack's directory as the call found it.
RejectedDeployWroteNothing ==
    \A t \in Tasks :
        (task[t].op = "deployStack" /\ task[t].result = "errRunning") =>
            disk[task[t].stack] = task[t].disk0

\* An exec call that has spawned its child and not yet returned.
InExec(t) == task[t].pc \in {"insert", "wait"}

\* C1: of the exec calls on one terminal name that overlap, exactly one spawns a
\* child and holds the name; the others return "already running" without spawning
\* and without touching the first one's registration.
ExecExactlyOneSpawns ==
    /\ \A t1, t2 \in Tasks :
          (t1 # t2 /\ InExec(t1) /\ InExec(t2)) => task[t1].name # task[t2].name
    /\ \A t \in Tasks :
          task[t].pc = "wait" => registry[StackMgr][task[t].name] = task[t].term

\* A child of a lifecycle operation on the stack that is still running.
LiveStackChild(i, stack) ==
    /\ terms[i].used /\ terms[i].alive
    /\ terms[i].mgr = StackMgr /\ terms[i].stack = stack

\* C2: no two compose children started by lifecycle operations on the same stack
\* run at the same time.
OneChildPerStack ==
    \A n \in StackNames, i, j \in TermIds :
        (LiveStackChild(i, n) /\ LiveStackChild(j, n)) => i = j

LifecycleOps ==
    ComposeOps \cup ServiceOps
        \cup {"deployStack", "updateStack", "updateService", "deleteStack", "forceDeleteStack"}

ChangedState(t) ==
    /\ task[t].pc = "done" /\ task[t].op \in LifecycleOps
    /\ task[t].ran \/ task[t].saveRes = "ok"

\* C11: every lifecycle handler that changed state (wrote the stack's files or ran
\* a compose child to its termination) has refreshed the cache and broadcast the
\* stack list by the time it acknowledges, on every exit path.
ChangedStateBroadcasts ==
    \A t \in Tasks : ChangedState(t) => task[t].bcast

\* C14: when remove(name) returns for a registered name, the name has no entry
\* and the child of the terminal that was registered has been killed and reaped.
RemoveReapsChild ==
    [][\A t \in Tasks :
          (task[t].pc = "wait" /\ task'[t].pc = "post" /\ has(StackMgr, task[t].name)) =>
              /\ registry'[StackMgr][task[t].name] = 0
              /\ ~terms'[registry[StackMgr][task[t].name]].alive]_vars

\* C24: an updateStack that acknowledges ok has run pull, up and prune (in that
\* order, the last exec being the prune) if the engine lists the stack as
\* running, and only the pull if not; it does not acknowledge ok after a pull
\* or an up that did not end with code 0.
UpdateStackSequence ==
    [][\A t \in Tasks :
          (/\ task[t].pc = "post" /\ task[t].op = "updateStack"
           /\ task'[t].pc = "done") =>
              /\ task'[t].ack = "ok" =>
                    task[t].phase = IF engine[task[t].stack] = "running" THEN 3 ELSE 1
              /\ (task[t].phase \in {1, 2} /\ task[t].result # "ok0") =>
                    task'[t].ack # "ok"]_vars

\* C25: deleteStack and forceDeleteStack remove the stack's directory only when
\* files are to be deleted and their own `compose down` child was started and has
\* terminated; otherwise they leave the directory as it is.
DeleteAfterDown ==
    [][\A t \in Tasks :
          (/\ task[t].pc = "post" /\ task[t].op \in {"deleteStack", "forceDeleteStack"}
           /\ task'[t].pc = "done") =>
              /\ disk' # disk =>
                    (task[t].delFiles /\ task[t].result \in {"ok0", "okN"})
              /\ ~task[t].delFiles => disk' = disk]_vars

\* ==================================================== specification: auth
\* Two connections that come and go, log in, send `logout`, and send events
\* directly or wrapped in the agent proxy, one handler at a time; one persistent
\* log terminal.  Authentication is enabled (no auto-login).
ManagedDisk == [n \in StackNames |-> IF n = GoodName THEN PlainDir ELSE AbsentDir]

InitAuth ==
    /\ InitCommon
    /\ disk = ManagedDisk
    /\ engine = NoEngine

Vias == {"direct", "agent"}

LogName == get_container_log_name(LocalEndpoint, GoodName, <<"s">>)

NextAuth ==
    \/ \E c \in Conns : Connect(c)
    \/ \E c \in Conns : Disconnect(c)
    \/ \E c \in Conns : Login(c)
    \/ \E c \in Conns : LoginByToken(c)
    \/ \E c \in Conns, v \in Vias : Logout(1, c, v)
    \/ \E c \in Conns, v \in Vias : RequestStackList(1, c, v)
    \/ Tick
    \/ \E c \in Conns, v \in Vias : JoinContainerLog(1, c, v, GoodName, <<"s">>)
    \/ PersistCheck(1)
    \/ PersistInsert(1)
    \/ \E c \in Conns, v \in Vias : TerminalResize(1, c, v, LogName)
    \/ \E c \in Conns, v \in Vias : TerminalInput(1, c, v, LogName)
    \/ \E i \in TermIds, code \in ExitCodes : ChildExit(i, code)
    \/ \E i \in TermIds : CmdPoll(i)
    \/ \E i \in TermIds : CmdResize(i)
    \/ \E i \in TermIds : CmdWrite(i)
    \/ \E i \in TermIds : CmdWriteFail(i)
    \/ \E i \in TermIds : AutoRemove(i)

SpecAuth == InitAuth /\ [][NextAuth]_vars

\* The events of this model that require authentication.
AuthOps ==
    LifecycleOps \cup
        {"requestStackList", "getStack", "saveStack", "joinContainerLog",
         "terminalResize", "terminalInput"}

\* C3: an event that requires authentication, sent on a connection that is not
\* logged in, is answered "Not logged in" and changes no file and no terminal.
UnauthenticatedRejected ==
    [][\A t \in Tasks :
          (/\ SlotFree(t) /\ task'[t] # task[t]
           /\ task'[t].op \in AuthOps /\ ~task'[t].authed)
          => /\ task'[t].ack = "NotLoggedIn"
             /\ UNCHANGED <<disk, registry, terms>>]_vars

\* C4: a connection that has never logged in has received no stackList event.
StackListOnlyToAuthenticated ==
    \A c \in Conns : "stackList" \in received[c] => everAuth[c]

\* C9: once the client has sent `logout`, the connection is unauthenticated until
\* it logs in again.
LogoutEndsSession ==
    \A c \in Conns : sentLogout[c] => ~check_login(c)

\* The events of this specification that the agent proxy routes, sent by
\* connection c directly (via = "direct") or wrapped as agent("", event, ...args).
RoutedEvent(c, via) ==
    \/ RequestStackList(1, c, via)
    \/ JoinContainerLog(1, c, via, GoodName, <<"s">>)
    \/ TerminalResize(1, c, via, LogName)
    \/ TerminalInput(1, c, via, LogName)

RoutedOps == {"requestStackList", "joinContainerLog", "terminalResize", "terminalInput"}

AckValues ==
    {"none", "ok", "NotLoggedIn", "notFound", "NameRequired", "UnknownEvent",
     "failed", "spawnFailed"}

\* C19: in every state, a routed event sent directly and the same event sent
\* wrapped in the agent proxy enter the same handler, leave it at the same place
\* with the same acknowledgement, and change the same parts of the state.
DirectAndWrappedAgree ==
    \A c \in Conns, o \in RoutedOps, a \in AckValues, p \in {"done", "pcheck"},
       chTerms \in BOOLEAN, chList \in BOOLEAN :
        (ENABLED (/\ RoutedEvent(c, "direct")
                  /\ task'[1].op = o /\ task'[1].ack = a /\ task'[1].pc = p
                  /\ (terms' # terms) = chTerms
                  /\ (received' # received \/ stack_cache' # stack_cache) = chList))
        <=>
        (ENABLED (/\ RoutedEvent(c, "agent")
                  /\ task'[1].op = o /\ task'[1].ack = a /\ task'[1].pc = p
                  /\ (terms' # terms) = chTerms
                  /\ (received' # received \/ stack_cache' # stack_cache) = chList))

\* C20: every handler that has returned sent one acknowledgement value to the
\* client's callback.
ExactlyOneAck ==
    \A t \in Tasks : task[t].pc = "done" => task[t].ack # "none"

\* ================================================ specification: terminals
\* One client whose joinContainerLog requests for one service overlap.
InitTerm ==
    /\ InitCommon
    /\ disk = ManagedDisk
    /\ engine = NoEngine

NextTerm ==
    \/ Connect(1)
    \/ Login(1)
    \/ \E t \in Tasks : JoinContainerLog(t, 1, "direct", GoodName, <<"s">>)
    \/ \E t \in Tasks : PersistCheck(t)
    \/ \E t \in Tasks : PersistInsert(t)
    \/ \E i \in TermIds, code \in ExitCodes : ChildExit(i, code)
    \/ \E i \in TermIds : CmdPoll(i)
    \/ \E i \in TermIds : AutoRemove(i)

SpecTerm == InitTerm /\ [][NextTerm]_vars

\* The running children that were spawned for the name in the manager.
LiveChildren(m, n) ==
    {i \in TermIds : terms[i].used /\ terms[i].alive /\ terms[i].mgr = m /\ terms[i].name = n}

\* C8: for every name at most one spawned child is running, exactly one while
\* has(name) is true, and no child that was registered under the name runs once
\* the name is registered to another terminal.
OneChildPerName ==
    \A m \in Managers, n \in TermNames :
        /\ Cardinality(LiveChildren(m, n)) <= 1
        /\ has(m, n) => Cardinality(LiveChildren(m, n)) = 1
        /\ \A i \in LiveChildren(m, n) : terms[i].autoRemove => registry[m][n] = i

\* C39: the auto-remove task of a persistent terminal that exited takes a name
\* out of the registry only if the name is registered to that terminal: a name
\* that is registered to a terminal whose exit code is not published stays
\* registered to it.
AutoRemoveOnlyOwnEntry ==
    [][\A n \in TermNames :
          (has(GlobalMgr, n) /\ ~ExitPublished(registry[GlobalMgr][n])) =>
              registry'[GlobalMgr][n] # 0]_vars

\* ================================================== specification: buffer
\* One client follows the log of one service: the terminal's reader thread and
\* fan-out task fill the replay buffer past its limit, and the client asks for the
\* replay of that terminal and of a name that is not registered.
MaxPush == 103

ComposeName == get_compose_terminal_name(LocalEndpoint, GoodName)

InitBuffer ==
    /\ InitCommon
    /\ disk = ManagedDisk
    /\ engine = NoEngine

NextBuffer ==
    \/ Connect(1)
    \/ Login(1)
    \/ JoinContainerLog(1, 1, "direct", GoodName, <<"s">>)
    \/ PersistCheck(1)
    \/ PersistInsert(1)
    \/ \E i \in TermIds : ReaderRead(i, MaxPush)
    \/ \E i \in TermIds : FanOutPush(i)
    \/ \E i \in TermIds : FanOutSend(i)
    \/ \E n \in {LogName, ComposeName} : TerminalJoin(1, 1, "direct", n)

SpecBuffer == InitBuffer /\ [][NextBuffer]_vars

\* The texts of the chunks from..to of a log, one after the other.
RECURSIVE ConcatTexts(_, _, _)
ConcatTexts(log, from, to) ==
    IF from > to THEN <<>> ELSE log[from].text \o ConcatTexts(log, from + 1, to)

\* The first of the most recent min(n, BUFFER_LIMIT) of n pushes.
FirstKept(n) == IF n > BUFFER_LIMIT THEN n - BUFFER_LIMIT + 1 ELSE 1

\* C12: a terminal's replay buffer never holds more than 100 chunks and holds
\* exactly the most recent min(n, 100) of the n chunks pushed, in push order;
\* get_buffer returns their texts concatenated in that order, and the empty
\* string for a name that is not registered.
ReplayBufferMostRecent ==
    /\ \A i \in TermIds :
          terms[i].used =>
              LET n == Len(terms[i].pushLog)
              IN /\ Len(terms[i].buffer) <= BUFFER_LIMIT
                 /\ terms[i].buffer = SubSeq(terms[i].pushLog, FirstKept(n), n)
    /\ \A t \in Tasks :
          (task[t].op = "terminalJoin" /\ task[t].ack = "ok") =>
              IF task[t].seen = <<>> THEN task[t].buf = <<>>
              ELSE /\ has(GlobalMgr, LogName)
                   /\ LET log == terms[registry[GlobalMgr][LogName]].pushLog
                          n == task[t].seen[1]
                      IN task[t].buf = ConcatTexts(log, FirstKept(n), n)

\* A client was sent the replay of a terminal whose buffer had overflowed.
ReplayAfterOverflow ==
    \E t \in Tasks :
        /\ task[t].op = "terminalJoin" /\ task[t].ack = "ok"
        /\ task[t].seen # <<>> /\ task[t].seen[1] > BUFFER_LIMIT
        /\ Len(task[t].buf) > BUFFER_LIMIT

\* ================================================== specification: stream
\* One log terminal with its reader thread and fan-out task, and receivers that
\* subscribe at any time, take their messages at any pace, fall behind the
\* channel's capacity, or go away.  The reader and the fan-out task are scheduled
\* fairly; nothing is assumed about the receivers.
MaxChunks == 4

NextStream ==
    \/ Connect(1)
    \/ Login(1)
    \/ JoinContainerLog(1, 1, "direct", GoodName, <<"s">>)
    \/ PersistCheck(1)
    \/ PersistInsert(1)
    \/ \E i \in TermIds : ReaderRead(i, MaxChunks)
    \/ \E i \in TermIds : FanOutPush(i)
    \/ \E i \in TermIds : FanOutSend(i)
    \/ \E i \in TermIds, s \in SubIds : Subscribe(i, s)
    \/ \E i \in TermIds, s \in SubIds : SubRecv(i, s)
    \/ \E i \in TermIds, s \in SubIds : SubVanish(i, s)

SpecStream ==
    /\ InitBuffer /\ [][NextStream]_vars
    /\ \A i \in TermIds :
          /\ WF_vars(ReaderRead(i, MaxChunks))
          /\ WF_vars(FanOutPush(i))
          /\ WF_vars(FanOutSend(i))

\* ids is a subsequence of the reads 1..n in their order, nothing twice.
InEmissionOrder(ids, n) ==
    /\ \A k \in 1 .. Len(ids) : ids[k] \in 1 .. n
    /\ \A k, l \in 1 .. Len(ids) : k < l => ids[k] < ids[l]

\* C13: what each subscriber of a terminal receives is a subsequence of the
\* chunks the child emitted, in emission order and without duplicates, and the
\* replay buffer is in emission order too; and whatever the subscribers do, every
\* chunk the child emits is read, pushed to the buffer and broadcast.
OrderedFanOut ==
    /\ [](\A i \in TermIds :
            terms[i].used =>
                /\ \A s \in SubIds : InEmissionOrder(terms[i].subs[s].got, terms[i].out)
                /\ InEmissionOrder([k \in 1 .. Len(terms[i].buffer) |->
                                       terms[i].buffer[k].id], terms[i].out))
    /\ \A i \in TermIds :
          terms[i].used ~> ( /\ terms[i].out = MaxChunks
                             /\ Len(terms[i].pushLog) = MaxChunks
                             /\ Len(terms[i].sent) = MaxChunks )

\* Every chunk was broadcast while one subscriber received some of them and
\* another had fallen behind by more than the channel holds.
LaggardLeftBehind ==
    \E i \in TermIds, s1, s2 \in SubIds :
        /\ terms[i].used /\ Len(terms[i].sent) = MaxChunks
        /\ terms[i].subs[s1].got # <<>>
        /\ terms[i].subs[s2].state = "live"
        /\ Len(terms[i].sent) - terms[i].subs[s2].cur > RingCap

\* =================================================== specification: cache
\* A client that saves a stack and asks for the stack list while the 10-second
\* tick refreshes the cache: the refreshes are taken step by step, as tasks of
\* the two-worker runtime interleave them.
InitCache ==
    /\ InitCommon
    /\ engine = NoEngine
    /\ \E d \in {AbsentDir, PlainDir} :
          disk = [n \in StackNames |-> IF n = GoodName THEN d ELSE AbsentDir]

NextCache ==
    \/ Connect(1)
    \/ Login(1)
    \/ \E a \in BOOLEAN :
          SaveStack(1, 1, "direct", GoodName, DeployTexts.compose, DeployTexts.env,
                    DeployTexts.override, a)
    \/ RequestStackListBegin(1, 1, "direct")
    \/ TickBegin(2)
    \/ \E t \in Tasks : RefreshRead(t)
    \/ \E t \in Tasks : RefreshWrite(t)
    \/ \E t \in Tasks : StackListEmit(t)

SpecCache == InitCache /\ [][NextCache]_vars

\* C15: when a requestStackList call acknowledges, stack_cache is the list that
\* call computed from the stacks directory and the engine's listing, whatever
\* other refreshes ran meanwhile.
AckSeesOwnRefresh ==
    [][\A t \in Tasks :
          (task[t].op = "requestStackList" /\ task[t].pc = "emit" /\ task'[t].pc = "done") =>
              stack_cache = SimpleList(task[t].snap, recreate_cache)]_vars

\* ================================================ specification: recreate
\* A client asks for the service status list of a managed stack whose containers
\* run images that may differ from the compose file (second task slot), and goes
\* on with other operations on the stack (first task slot).
SaveTexts == {Texts(<<"a">>, <<>>, <<>>), Texts(<<"b">>, <<>>, <<>>)}

InitRecreate ==
    /\ InitCommon
    /\ disk = ManagedDisk
    /\ engine = [n \in StackNames |-> IF n = GoodName THEN "running" ELSE "none"]

NextRecreate ==
    \/ Connect(1)
    \/ Login(1)
    \/ \E ps \in [ComposeServices -> PsImages], ok \in BOOLEAN :
          ServiceStatusList(2, 1, "direct", GoodName, ps, ok)
    \/ \E x \in SaveTexts :
          SaveStack(1, 1, "direct", GoodName, x.compose, x.env, x.override, FALSE)
    \/ RequestStackList(1, 1, "direct")
    \/ Tick
    \/ GetStack(1, 1, "direct", GoodName)
    \/ ComposeAction(1, 1, "direct", "restartStack", GoodName)
    \/ \E f \in BOOLEAN : DeleteStack(1, 1, "direct", GoodName, f, f)
    \/ ExecCheck(1)
    \/ ExecInsert(1)
    \/ ExecWait(1)
    \/ PostAction(1)
    \/ PostDelete(1)
    \/ \E i \in TermIds, code \in ExitCodes : ChildExit(i, code)
    \/ \E i \in TermIds : CmdPoll(i)

SpecRecreate == InitRecreate /\ [][NextRecreate]_vars

\* The step is a serviceStatusList call on the stack that reached its end.
StatusListStep(n) ==
    \E t \in Tasks :
        /\ task'[t] # task[t]
        /\ task'[t].op = "serviceStatusList" /\ task'[t].stack = n

\* The services whose compose image differs from the image their container
\* reports.
Mismatching(yaml, ps) ==
    {svc \in ComposeServices :
        LET declared == compose_image(yaml, svc)
        IN declared # "" /\ ps[svc] \notin {NoContainer, "", declared}}

\* C16: a serviceStatusList call that finds a service whose compose image differs
\* from its container's image answers serviceRecreateStatus for exactly those
\* services and sets recreate_cache[stack]; the entry stays true through every
\* step that is not a serviceStatusList on the stack, and every stack list
\* computed while it is true reports recreateNecessary for the stack.
RecreateLatched ==
    [][\A n \in StackNames :
          /\ \A t \in Tasks :
                (task'[t] # task[t] /\ task'[t].op = "serviceStatusList"
                    /\ task'[t].ack = "ok" /\ task'[t].stack = n) =>
                    /\ task'[t].recreate =
                           Mismatching(GetStackLoaded(n).compose_yaml, task'[t].ps)
                    /\ task'[t].recreate # {} => recreate_cache'[n] = Some(TRUE)
          /\ (recreate_cache[n] = Some(TRUE) /\ ~StatusListStep(n)) =>
                recreate_cache'[n] = Some(TRUE)
          /\ (recreate_cache'[n] = Some(TRUE) /\ stack_cache'[n].listed
                /\ \E t \in Tasks : task'[t] # task[t] /\ task'[t].bcast) =>
                stack_cache'[n].recreateNecessary]_vars

\* One of two services was found to need recreation, and after a later save the
\* stack list reports it.
RecreateReported ==
    /\ task[2].op = "serviceStatusList" /\ task[2].recreate = {"s"}
    /\ task[2].ps["u"] \notin {NoContainer, ""}
    /\ task[1].op = "saveStack" /\ task[1].bcast
    /\ recreate_cache[GoodName] = Some(TRUE)
    /\ stack_cache[GoodName].recreateNecessary

\* ================================================== specification: update
\* The update checker checks the images of the two services of one stack, again
\* and again, with every combination of remote digest, local digest and ignore
\* label.
InitUpdate ==
    /\ InitCommon
    /\ disk = ManagedDisk
    /\ engine = NoEngine

NextUpdate ==
    \E svc \in ComposeServices, r, l, i \in OptDigests :
        check_single_image(GoodName, svc, r, l, i) /\ UNCHANGED checks

SpecUpdate == InitUpdate /\ [][NextUpdate]_vars

\* C17: the has_update a single image check stores is: the remote digest is
\* present, the local digest is present, they differ, and it is not the case that
\* an ignore label is set and equals the remote digest.
HasUpdateFormula ==
    \A n \in StackNames, svc \in ComposeServices :
        LET row == image_update_cache[n][svc]
        IN row.checked =>
              (row.has_update <=>
                  ( /\ row.remote_digest # None
                    /\ row.local_digest # None
                    /\ row.remote_digest # row.local_digest
                    /\ ~(row.ignore # None /\ row.ignore = row.remote_digest) ))

\* C27: a check that finds no local digest makes no determination: a row that
\* holds no local digest after a step is the row that was there before it (no
\* row is created, and has_update and the digests of an existing row are kept).
NoLocalDigestNoChange ==
    [][\A n \in StackNames, svc \in ComposeServices :
          LET old == image_update_cache[n][svc]
              new == image_update_cache'[n][svc]
          IN (new # old /\ new.local_digest = None) =>
                /\ new.checked = old.checked
                /\ new.has_update = old.has_update
                /\ new.remote_digest = old.remote_digest
                /\ old.local_digest = None]_vars

\* One service has an update; the other's update is ignored by its label.
UpdateIgnored ==
    /\ image_update_cache[GoodName]["s"].has_update
    /\ LET row == image_update_cache[GoodName]["u"]
       IN /\ row.checked /\ ~row.has_update
          /\ row.remote_digest # None /\ row.local_digest # None
          /\ row.remote_digest # row.local_digest
          /\ row.ignore = row.remote_digest

\* ================================================== specification: status
\* The engine lists one project with changing numbers of running and exited
\* containers, and the stack list converts the status text it finds.
Counts ==
    {<<"0">>, <<"1">>, <<"2">>, <<"1", "0">>, I32MaxDigits,
     <<"2", "1", "4", "7", "4", "8", "3", "6", "4", "8">>}

InitStatus ==
    /\ InitCommon
    /\ disk = ManagedDisk
    /\ engine = NoEngine

NextStatus ==
    \/ \E n, m \in Counts : ComposeLs(n, m)
    \/ ConvertStatus

SpecStatus == InitStatus /\ [][NextStatus]_vars

\* C18: of a status text "running(N), exited(M)", status_convert makes
\* RUNNING_AND_EXITED exactly if N > 0 and M > 0, RUNNING exactly if N > 0 and
\* M = 0, and EXITED exactly if N = 0 and M > 0.
StatusConvertCounts ==
    [][\A n, m \in Counts :
          (ls_status = StatusText(n, m) /\ status' # status) =>
              /\ status' = RUNNING_AND_EXITED <=> (n # <<"0">> /\ m # <<"0">>)
              /\ status' = RUNNING <=> (n # <<"0">> /\ m = <<"0">>)
              /\ status' = EXITED <=> (n = <<"0">> /\ m # <<"0">>)]_vars

\* ================================================= specification: sessions
\* Two sockets that connect, log in as the user, and send addAgent, removeAgent,
\* updateAgent and changePassword.
AgentUrls == {"u"}

AgentOps == {"addAgent", "removeAgent", "updateAgent"}

Letters == {"a", "b", "c", "x", "y", "z"}

Passwords ==
    {<<>>, <<"a", "b", "c">>, <<"1", "2", "3", "4", "5", "6">>, FirstPassword,
     <<"x", "y", "z", "7", "8", "9">>}

\* check_password_strength: six characters or more, a letter and a digit.
check_password_strength(pw) ==
    /\ Len(pw) >= 6
    /\ \E i \in 1 .. Len(pw) : pw[i] \in Letters
    /\ \E i \in 1 .. Len(pw) : IsDigit(pw[i])

\* disconnect_other_clients(state, current_socket_id, user_id): every socket of
\* the namespace but the current one, whose user is user_id (any socket when
\* user_id is None), is sent `refresh` and disconnected.
disconnect_other_clients(current, user_id) ==
    LET hit(d) == /\ connected[d] /\ d # current
                  /\ (user_id = None \/ (userId[d] # 0 /\ Some(userId[d]) = user_id))
    IN  /\ connected' = [d \in Conns |-> connected[d] /\ ~hit(d)]
        /\ userId' = [d \in Conns |-> IF hit(d) THEN 0 ELSE userId[d]]
        /\ received' = [d \in Conns |->
                          IF hit(d) THEN {"refresh"}
                          ELSE IF d = current THEN received[d] \cup {"agentList"}
                          ELSE received[d]]
        /\ everAuth' = [d \in Conns |-> everAuth[d] /\ ~hit(d)]
        /\ sentLogout' = [d \in Conns |-> sentLogout[d] /\ ~hit(d)]

\* handle_add_agent, handle_remove_agent, handle_update_agent: the change of the
\* agent table; on success disconnect_other_clients(.., None) and send_agent_list.
AgentMutation(t, c, op, url) ==
    /\ connected[c] /\ SlotFree(t)
    /\ LET ok == IF op = "addAgent" THEN url \notin agents ELSE url \in agents
       IN IF ~check_login(c)
          THEN /\ task' = [task EXCEPT ![t] = NotLoggedIn(op, c, "direct", <<>>)]
               /\ UNCHANGED <<connVars, received, agents>>
          ELSE IF ~ok
          THEN /\ task' = [task EXCEPT ![t] =
                             [NewTask(op, c, "direct", <<>>) EXCEPT
                                 !.pc = "done", !.ack = "failed"]]
               /\ UNCHANGED <<connVars, received, agents>>
          ELSE /\ agents' = CASE op = "addAgent" -> agents \cup {url}
                              [] op = "removeAgent" -> agents \ {url}
                              [] OTHER -> agents
               /\ disconnect_other_clients(c, None)
               /\ task' = [task EXCEPT ![t] =
                             [NewTask(op, c, "direct", <<>>) EXCEPT
                                 !.pc = "done", !.ack = "ok"]]
    /\ UNCHANGED <<refVars, stack_cache, diskVars, engine, termVars, recreate_cache,
                   image_update_cache, ls_status, status, password, checks>>

\* handle_change_password
ChangePassword(t, c, currentPassword, newPassword) ==
    /\ connected[c] /\ SlotFree(t)
    /\ IF ~check_login(c)
       THEN /\ task' = [task EXCEPT ![t] = NotLoggedIn("changePassword", c, "direct", <<>>)]
            /\ UNCHANGED password
       ELSE IF \/ newPassword = <<>>
               \/ ~check_password_strength(newPassword)
               \/ currentPassword # password
       THEN /\ task' = [task EXCEPT ![t] =
                          [NewTask("changePassword", c, "direct", <<>>) EXCEPT
                              !.pc = "done", !.ack = "failed"]]
            /\ UNCHANGED password
       ELSE /\ password' = newPassword
            /\ task' = [task EXCEPT ![t] =
                          [NewTask("changePassword", c, "direct", <<>>) EXCEPT
                              !.pc = "done", !.ack = "ok"]]
    /\ UNCHANGED <<refVars, connVars, received, stack_cache, diskVars, engine, termVars,
                   recreate_cache, image_update_cache, ls_status, status, agents,
                   checks>>

InitSession ==
    /\ InitCommon
    /\ disk = ManagedDisk
    /\ engine = NoEngine

NextSession ==
    \/ \E c \in Conns : Connect(c)
    \/ \E c \in Conns : Disconnect(c)
    \/ \E c \in Conns : Login(c)
    \/ \E c \in Conns, op \in AgentOps, u \in AgentUrls : AgentMutation(1, c, op, u)
    \/ \E c \in Conns, cur \in Passwords, new \in Passwords : ChangePassword(1, c, cur, new)

SpecSession == InitSession /\ [][NextSession]_vars

SessionOps == AgentOps \cup {"changePassword"}

\* C21: a step in which addAgent, removeAgent, updateAgent or changePassword of
\* a session of user U succeeds sends `refresh` to every other connected session
\* of U and disconnects it, keeps the initiating session connected, and leaves
\* the sessions that do not belong to U connected.
PeersOfUserDisconnected ==
    [][\A c \in Conns :
          (/\ task'[1] # task[1] /\ task'[1].pc = "done" /\ task'[1].ack = "ok"
           /\ task'[1].op \in SessionOps /\ task'[1].conn = c) =>
              /\ connected'[c]
              /\ \A d \in Conns \ {c} :
                    connected[d] =>
                        IF userId[d] = userId[c]
                        THEN ~connected'[d] /\ "refresh" \in received'[d]
                        ELSE connected'[d]]_vars

\* ================================================= specification: registry
\* One client starts a stack and, while the compose child runs, sends
\* terminalJoin, terminalInput and terminalResize for the name of the stack's
\* compose terminal.
MaxReads == 2

InitRegistry ==
    /\ InitCommon
    /\ disk = ManagedDisk
    /\ engine = NoEngine

NextRegistry ==
    \/ Connect(1)
    \/ Login(1)
    \/ ComposeAction(1, 1, "direct", "startStack", GoodName)
    \/ ExecCheck(1)
    \/ ExecInsert(1)
    \/ ExecWait(1)
    \/ PostAction(1)
    \/ \E i \in TermIds : ReaderRead(i, MaxReads)
    \/ \E i \in TermIds : FanOutPush(i)
    \/ \E i \in TermIds : FanOutSend(i)
    \/ \E i \in TermIds, code \in ExitCodes : ChildExit(i, code)
    \/ \E i \in TermIds : CmdPoll(i)
    \/ TerminalJoin(2, 1, "direct", ComposeName)
    \/ TerminalInput(2, 1, "direct", ComposeName)
    \/ TerminalResize(2, 1, "direct", ComposeName)

SpecRegistry == InitRegistry /\ [][NextRegistry]_vars

\* The terminal of the compose operation that is running for the stack (0: none).
RunningCompose ==
    IF task[1].pc = "wait" /\ \E m \in Managers : registry[m][ComposeName] = task[1].term
    THEN task[1].term ELSE 0

\* C23: while a compose operation runs under the stack's compose terminal name, a
\* terminalJoin for that name is answered with that terminal's replay buffer,
\* and a terminalInput or terminalResize for that name sends its command to that
\* terminal.
OneTerminalRegistry ==
    [][(/\ RunningCompose # 0 /\ task'[2] # task[2] /\ task'[2].pc = "done"
        /\ task'[2].ack # "NotLoggedIn") =>
          /\ task'[2].op = "terminalJoin" =>
                task'[2].buf = get_buffer(terms[RunningCompose].buffer)
          /\ task'[2].op \in {"terminalInput", "terminalResize"} =>
                Len(terms'[RunningCompose].cmdQ) = Len(terms[RunningCompose].cmdQ) + 1]_vars

\* ==================================================== specification: names
\* One client sends lifecycle operations with a stack name that does not match
\* [a-z0-9_-]+; a directory of that name may exist under the stacks root (made
\* there by hand, or reached by a name such as "..").
InitNames ==
    /\ InitCommon
    /\ \E d \in {AbsentDir, PlainDir} :
          disk = [n \in StackNames |-> IF n = BadName THEN d ELSE AbsentDir]
    /\ engine = NoEngine

NextNames ==
    \/ Connect(1)
    \/ Login(1)
    \/ \E n \in StackNames : GetStack(1, 1, "direct", n)
    \/ \E n \in StackNames, a \in BOOLEAN :
          SaveStack(1, 1, "direct", n, DeployTexts.compose, DeployTexts.env,
                    DeployTexts.override, a)
    \/ \E n \in StackNames, op \in {"startStack", "downStack"} :
          ComposeAction(1, 1, "direct", op, n)
    \/ \E n \in StackNames : UpdateStack(1, 1, "direct", n)
    \/ \E n \in StackNames, f \in BOOLEAN : DeleteStack(1, 1, "direct", n, f, f)
    \/ ExecCheck(1)
    \/ ExecInsert(1)
    \/ ExecWait(1)
    \/ PostAction(1)
    \/ PostUpdateStack(1)
    \/ PostDelete(1)
    \/ \E i \in TermIds, code \in ExitCodes : ChildExit(i, code)
    \/ \E i \in TermIds : CmdPoll(i)

SpecNames == InitNames /\ [][NextNames]_vars

\* C26: a lifecycle operation called with a name that does not match [a-z0-9_-]+
\* is refused at once with a failed acknowledgement: it never gets as far as a
\* process, and the directory of that name stays as it was.
InvalidNameRejected ==
    /\ \A t \in Tasks :
          (task[t].op # "none" /\ ~NameMatches(task[t].stack)) =>
              (task[t].pc = "done" /\ task[t].ack # "ok")
    /\ \A i \in TermIds : terms[i].used => NameMatches(terms[i].stack)

\* =================================================== specification: checks
\* The background cycle (check_all) and per-stack checks (check_stack) of the
\* images of one managed stack with two services, running side by side.
\* The tasks a cycle spawns, one for each service with an image of each of the
\* stacks it looks at (managed, with a compose document); each waits for a permit.
SpawnedChecks(stacks) ==
    [n \in StackNames |-> [svc \in ComposeServices |->
        IF /\ n \in stacks /\ disk[n].exists
           /\ LoadFromDisk(disk[n]).compose_yaml # <<>>
           /\ compose_image(LoadFromDisk(disk[n]).compose_yaml, svc) # ""
        THEN "waiting" ELSE "none"]]

\* load_cache_from_db: an entry for each stack that has a row, has_updates true
\* if any of its rows has has_update.
load_cache_from_db(rows) ==
    [n \in StackNames |->
        IF \E svc \in ComposeServices : rows[n][svc].checked
        THEN Some(\E svc \in ComposeServices :
                     rows[n][svc].checked /\ rows[n][svc].has_update)
        ELSE None]

\* check_all, up to the spawning of its tasks: nothing if the setting
\* imageUpdateCheckEnabled is false; else a new Semaphore(CONCURRENCY_LIMIT) and
\* one task for each image of each managed stack.
check_all(k, enabled) ==
    /\ checks[k].kind = "idle"
    /\ checks' = [checks EXCEPT ![k] =
          IF ~enabled THEN NoCycle
          ELSE [kind |-> "all", permits |-> CONCURRENCY_LIMIT,
                job |-> SpawnedChecks(StackNames)]]
    /\ UNCHANGED <<refVars, connVars, received, stack_cache, diskVars, engine, termVars, task,
                   recreate_cache, image_update_cache, ls_status, status, agents,
                   password>>

\* check_stack, up to the spawning of its tasks: a new Semaphore(CONCURRENCY_LIMIT)
\* and one task for each image of the stack.
check_stack(k, stack_name) ==
    /\ checks[k].kind = "idle"
    /\ checks' = [checks EXCEPT ![k] =
          IF ~GetStackFound(stack_name) THEN NoCycle
          ELSE [kind |-> "stack", permits |-> CONCURRENCY_LIMIT,
                job |-> SpawnedChecks({stack_name})]]
    /\ UNCHANGED <<refVars, connVars, received, stack_cache, diskVars, engine, termVars, task,
                   recreate_cache, image_update_cache, ls_status, status, agents,
                   password>>

\* A spawned task: sem.acquire() on the semaphore of its own call.
CheckAcquire(k, n, svc) ==
    /\ checks[k].job[n][svc] = "waiting" /\ checks[k].permits > 0
    /\ checks' = [checks EXCEPT ![k].job[n][svc] = "running", ![k].permits = @ - 1]
    /\ UNCHANGED <<refVars, connVars, received, stack_cache, diskVars, engine, termVars, task,
                   recreate_cache, image_update_cache, ls_status, status, agents,
                   password>>

\* A spawned task: check_single_image, then the permit is dropped.
CheckRun(k, n, svc, remote_digest, local_digest, ignore_digest) ==
    /\ checks[k].job[n][svc] = "running"
    /\ check_single_image(n, svc, remote_digest, local_digest, ignore_digest)
    /\ checks' = [checks EXCEPT ![k].job[n][svc] = "done", ![k].permits = @ + 1]

\* The call has awaited all its handles: it reloads the cache and returns.
CheckEnd(k) ==
    /\ checks[k].kind # "idle"
    /\ \A n \in StackNames, svc \in ComposeServices :
          checks[k].job[n][svc] \in {"none", "done"}
    /\ checks' = [checks EXCEPT ![k] = NoCycle]
    /\ update_cache' = load_cache_from_db(image_update_cache)
    /\ UNCHANGED <<image_ref, parsed, locks, user, need_setup, connVars, received,
                   stack_cache, diskVars, engine, termVars, task, recreate_cache,
                   image_update_cache, ls_status, status, agents, password>>

InitChecks ==
    /\ InitCommon
    /\ disk = ManagedDisk
    /\ engine = NoEngine

NextChecks ==
    \/ \E enabled \in BOOLEAN : check_all(1, enabled)
    \/ \E k \in Cycles \ {1}, n \in StackNames : check_stack(k, n)
    \/ \E k \in Cycles, n \in StackNames, svc \in ComposeServices : CheckAcquire(k, n, svc)
    \/ \E k \in Cycles, n \in StackNames, svc \in ComposeServices, r, l \in OptDigests :
          CheckRun(k, n, svc, r, l, None)
    \/ \E k \in Cycles : CheckEnd(k)

SpecChecks == InitChecks /\ [][NextChecks]_vars

\* The single-image checks in flight: the tasks that hold a permit.
InFlight ==
    {<<k, n, svc>> \in Cycles \X StackNames \X ComposeServices :
        checks[k].job[n][svc] = "running"}

\* C28: at every instant at most CONCURRENCY_LIMIT single-image checks are in
\* flight in the whole server, those of check_all and of every check_stack taken
\* together.
GlobalCheckLimit == Cardinality(InFlight) <= CONCURRENCY_LIMIT

\* ============================================= specification: image parsing
\* parse_image_reference applied to the image references of compose documents.
\* The longest reference built from RefChars.
MaxRefLen == 4

RefChars == {"a", ".", ":", "/"}

DefaultRegistry ==
    <<"r", "e", "g", "i", "s", "t", "r", "y", "-", "1", ".", "d", "o", "c", "k", "e", "r",
      ".", "i", "o">>

Latest == <<"l", "a", "t", "e", "s", "t">>

LibraryPrefix == <<"l", "i", "b", "r", "a", "r", "y", "/">>

Sha256Marker == <<"@", "s", "h", "a", "2", "5", "6", ":">>

\* str::trim
RECURSIVE trim(_)
trim(s) ==
    IF s # <<>> /\ Head(s) \in White THEN trim(Tail(s))
    ELSE IF s # <<>> /\ s[Len(s)] \in White THEN trim(SubSeq(s, 1, Len(s) - 1))
    ELSE s

\* str::find: the position of the first occurrence (0: None).  Positions count
\* from 1 here and from 0 in the code.
find(s, w) ==
    IF contains(s, w) THEN CHOOSE p \in 1 .. Len(s) :
                               IsAt(s, w, p) /\ \A q \in 1 .. p - 1 : ~IsAt(s, w, q)
    ELSE 0

\* str::rfind of one character (0: None).
rfind(s, ch) ==
    IF Contains(s, ch) THEN CHOOSE p \in 1 .. Len(s) :
                                s[p] = ch /\ \A q \in p + 1 .. Len(s) : s[q] # ch
    ELSE 0

\* str::split('/'): the segments between the slashes, empty ones included.
RECURSIVE split(_, _)
split(s, ch) ==
    IF ~Contains(s, ch) THEN <<s>>
    ELSE LET p == CHOOSE q \in 1 .. Len(s) : s[q] = ch /\ \A r \in 1 .. q - 1 : s[r] # ch
         IN <<SubSeq(s, 1, p - 1)>> \o split(SubSeq(s, p + 1, Len(s)), ch)

\* [&str]::join("/")
RECURSIVE join(_, _)
join(parts, ch) ==
    IF parts = <<>> THEN <<>>
    ELSE IF Len(parts) = 1 THEN parts[1]
    ELSE parts[1] \o <<ch>> \o join(Tail(parts), ch)

\* parse_image_reference
parse_image_reference(ref) ==
    LET trimmed == trim(ref)
        pos == find(trimmed, Sha256Marker)
        reference == IF pos # 0 THEN SubSeq(trimmed, 1, pos - 1) ELSE trimmed
        last_colon == rfind(reference, ":")
        last_slash == rfind(reference, "/")
        slash_pos == IF last_slash = 0 THEN 0 ELSE last_slash - 1
        tagged == last_colon # 0 /\ last_colon - 1 > slash_pos
        tag == IF tagged THEN SubSeq(reference, last_colon + 1, Len(reference)) ELSE Latest
        name == IF tagged THEN SubSeq(reference, 1, last_colon - 1) ELSE reference
        parts == split(name, "/")
    IN IF Len(parts) >= 2 /\ (Contains(parts[1], ".") \/ Contains(parts[1], ":"))
       THEN [registry |-> parts[1], repository |-> join(Tail(parts), "/"), tag |-> tag]
       ELSE IF Len(parts) = 1
       THEN [registry |-> DefaultRegistry, repository |-> LibraryPrefix \o parts[1],
             tag |-> tag]
       ELSE [registry |-> DefaultRegistry, repository |-> name, tag |-> tag]

\* The image references of the model: every text of RefChars up to MaxRefLen,
\* and some with blanks around them or pinned to a digest.
RECURSIVE RefsOfLen(_)
RefsOfLen(n) ==
    IF n = 0 THEN {<<>>}
    ELSE {Append(r, ch) : r \in RefsOfLen(n - 1), ch \in RefChars}

ImageRefs ==
    UNION {RefsOfLen(n) : n \in 1 .. MaxRefLen}
        \cup {<<" ", "a", ":", "a", " ">>,
              <<"a">> \o Sha256Marker \o <<"a">>,
              <<"a", ":", "a">> \o Sha256Marker \o <<"a">>,
              <<"a", ".", "/", "a">> \o Sha256Marker \o <<"a">>}

\* A check reads the image of a service and parses it.
ParseImage(ref) ==
    /\ image_ref' = ref
    /\ parsed' = parse_image_reference(ref)
    /\ UNCHANGED <<connVars, received, stack_cache, diskVars, engine, termVars, task,
                   recreate_cache, image_update_cache, ls_status, status, agents,
                   password, checks, locks, user, need_setup, update_cache>>

InitParse ==
    /\ InitCommon
    /\ disk = ManagedDisk
    /\ engine = NoEngine

NextParse == \E ref \in ImageRefs : ParseImage(ref)

SpecParse == InitParse /\ [][NextParse]_vars

\* C29: of a reference (blanks and an @sha256 suffix stripped) the tag is the text
\* after the last ':' when that ':' comes after the last '/', else `latest`; the
\* registry is the first '/'-separated segment of what is left when that segment
\* contains '.' or ':', else registry-1.docker.io; the repository is what remains
\* after the registry, with `library/` put before it when it is one segment.
ParseImageReferenceRule ==
    parsed # NoParsed =>
        LET trimmed == trim(image_ref)
            pos == find(trimmed, Sha256Marker)
            reference == IF pos # 0 THEN SubSeq(trimmed, 1, pos - 1) ELSE trimmed
            colon == rfind(reference, ":")
            tagged == colon # 0 /\ colon > rfind(reference, "/")
            name == IF tagged THEN SubSeq(reference, 1, colon - 1) ELSE reference
            segments == split(name, "/")
            named == Contains(segments[1], ".") \/ Contains(segments[1], ":")
            rest == IF named THEN Tail(segments) ELSE segments
        IN /\ parsed.tag = IF tagged THEN SubSeq(reference, colon + 1, Len(reference))
                           ELSE Latest
           /\ parsed.registry = IF named THEN segments[1] ELSE DefaultRegistry
           /\ parsed.repository = IF Len(rest) = 1 THEN LibraryPrefix \o rest[1]
                                  ELSE join(rest, "/")

\* =================================================== specification: exit
\* One client whose startStack calls overlap while it follows and types into the
\* log of a service: the command threads leave their loop by Close, by a failed
\* write and by the poll that sees the child gone.
InitExit ==
    /\ InitCommon
    /\ disk = ManagedDisk
    /\ engine = NoEngine

NextExit ==
    \/ Connect(1)
    \/ Login(1)
    \/ \E t \in Tasks : ComposeAction(t, 1, "direct", "startStack", GoodName)
    \/ \E t \in Tasks : ExecCheck(t)
    \/ \E t \in Tasks : ExecInsert(t)
    \/ \E t \in Tasks : ExecWait(t)
    \/ \E t \in Tasks : PostAction(t)
    \/ JoinContainerLog(1, 1, "direct", GoodName, <<"s">>)
    \/ PersistCheck(1)
    \/ PersistInsert(1)
    \/ TerminalInput(2, 1, "direct", LogName)
    \/ \E i \in TermIds, code \in ExitCodes : ChildExit(i, code)
    \/ \E i \in TermIds : CmdClose(i)
    \/ \E i \in TermIds : CmdWrite(i)
    \/ \E i \in TermIds : CmdWriteFail(i)
    \/ \E i \in TermIds : CmdPoll(i)
    \/ \E i \in TermIds : AutoRemove(i)

SpecExit == InitExit /\ [][NextExit]_vars

\* C31: a terminal's published exit code changes at most once, from absent to
\* the code its child ended with, whichever way the command thread leaves its
\* loop; and a caller of wait_for_exit returns only once the code is published
\* and with that code.
ExitCodeLatched ==
    [][/\ \A i \in TermIds :
            (terms[i].used /\ terms'[i].used /\ terms'[i].exit # terms[i].exit) =>
                /\ terms[i].exit = None
                /\ terms'[i].exit # None
                /\ terms'[i].exit = terms'[i].status
                /\ terms'[i].thread = "done"
       /\ \A t \in Tasks :
            (task[t].pc = "wait" /\ task'[t].pc = "post") =>
                /\ terms[task[t].term].exit # None
                /\ task'[t].result = "ok0" <=> terms[task[t].term].exit = Some(0)
       /\ \A i \in TermIds :
            (terms[i].used /\ terms[i].autoRemove /\ ~terms'[i].autoRemove) =>
                terms[i].exit # None]_vars

\* An exec call's terminal was closed by another call's remove while the call
\* waits for the exit, and a log terminal's command thread left on a failed write.
ExitByEveryPath ==
    /\ \E t \in Tasks :
          /\ task[t].pc = "wait"
          /\ terms[task[t].term].exit # None
          /\ registry[StackMgr][task[t].name] # task[t].term
    /\ \E i \in TermIds :
          /\ terms[i].used /\ terms[i].interactive
          /\ terms[i].exit # None

\* =================================================== specification: sink
\* One client starts a stack: the compose child's output goes through the reader
\* thread and the fan-out task to the replay buffer and to the terminal's
\* channel, from which exec's forwarding task feeds the caller's channel.
NextSink ==
    \/ Connect(1)
    \/ Login(1)
    \/ ComposeAction(1, 1, "direct", "startStack", GoodName)
    \/ ExecCheck(1)
    \/ ExecInsert(1)
    \/ ExecWait(1)
    \/ PostAction(1)
    \/ \E i \in TermIds : ReaderRead(i, MaxReads)
    \/ \E i \in TermIds : FanOutPush(i)
    \/ \E i \in TermIds : FanOutSend(i)
    \/ \E i \in TermIds : ExecForward(i)
    \/ \E i \in TermIds, code \in ExitCodes : ChildExit(i, code)
    \/ \E i \in TermIds : CmdPoll(i)

SpecSink == InitRegistry /\ [][NextSink]_vars

\* C32: once exec has registered its terminal, the banner is the first chunk of
\* the terminal's replay buffer and the first message of the caller's channel.
BannerFirst ==
    \A t \in Tasks :
        task[t].pc = "wait" =>
            /\ Head(terms[task[t].term].buffer) = Banner
            /\ Head(terms[task[t].term].sink) = Banner.id

\* C33: when exec returns and its forwarding task has not lagged, every chunk
\* the reader thread took from the child is in the caller's channel, after the
\* banner and in order.
AllOutputForwarded ==
    [][\A t \in Tasks :
          (/\ task[t].pc = "wait" /\ task'[t].pc = "post"
           /\ terms[task[t].term].subs[1].state = "live") =>
              terms[task[t].term].sink =
                  [k \in 1 .. terms[task[t].term].out + 1 |-> k - 1]]_vars

\* ================================================ specification: console
\* One client opens the main terminal, once or twice: the shell's output goes
\* through the reader thread and the fan-out task to the replay buffer and to
\* the forwarding tasks of the handlers, and the shell exits.  Every thread and
\* task of the server is scheduled fairly.
NextConsole ==
    \/ Connect(1)
    \/ Login(1)
    \/ MainTerminal(1, 1)
    \/ PersistCheck(1)
    \/ PersistInsert(1)
    \/ JoinSnapshot(1)
    \/ JoinSubscribe(1)
    \/ ReaderRead(1, RingCap + 1)
    \/ FanOutPush(1)
    \/ FanOutSend(1)
    \/ \E i \in TermIds, s \in SubIds : SubRecv(i, s)
    \/ \E i \in TermIds, s \in SubIds : ForwardExit(i, s)
    \/ \E code \in ExitCodes : ChildExit(1, code)
    \/ \E i \in TermIds : CmdPoll(i)
    \/ \E i \in TermIds : AutoRemove(i)

SpecConsole ==
    /\ InitBuffer /\ [][NextConsole]_vars
    /\ WF_vars(PersistCheck(1)) /\ WF_vars(PersistInsert(1))
    /\ WF_vars(JoinSnapshot(1)) /\ WF_vars(JoinSubscribe(1))
    /\ WF_vars(ReaderRead(1, RingCap + 1)) /\ WF_vars(FanOutPush(1))
    /\ WF_vars(FanOutSend(1))
    /\ \A i \in TermIds :
          /\ WF_vars(CmdPoll(i))
          /\ WF_vars(AutoRemove(i))
          /\ \A s \in SubIds : WF_vars(SubRecv(i, s)) /\ WF_vars(ForwardExit(i, s))

\* C34: once the child of a persistent terminal has exited, the terminal's name
\* is eventually deregistered, and every forwarding task that a join subscribed
\* to the terminal eventually emits the terminalExit event to its client.
ExitReachesSubscribers ==
    \A i \in TermIds :
        /\ (terms[i].used /\ terms[i].interactive /\ ~terms[i].alive)
               ~> (registry[GlobalMgr][MainTerminalName] # i)
        /\ \A s \in SubIds :
              (terms[i].used /\ ~terms[i].alive /\ terms[i].subs[s].state = "live")
                 ~> (~terms[i].used \/ terms[i].subs[s].state = "exited")

\* C38: what a client that opened the main terminal has been sent, the replay
\* followed by what its forwarding task emitted, is the terminal's chunks from
\* the first on, each once and none left out; and a connection has one
\* forwarding task per terminal however often it joined.
EachChunkOnce ==
    \A i \in TermIds :
        terms[i].used =>
            /\ \A s \in SubIds :
                  terms[i].subs[s].conn # 0 =>
                      LET view == terms[i].subs[s].replay \o terms[i].subs[s].got
                      IN view = [k \in 1 .. Len(view) |-> k]
            /\ \A s, r \in SubIds :
                  (/\ s # r /\ terms[i].subs[s].state = "live"
                   /\ terms[i].subs[r].state = "live") =>
                      terms[i].subs[s].conn # terms[i].subs[r].conn

\* =================================================== specification: locks
\* The tasks that share the RwLocks, each repeating the lock operations of its
\* code in their order, any MaxActive of them at a time, interleaved in every way.  A tokio RwLock is fair: a
\* request waits behind every request that is already queued, so a reader waits
\* behind a waiting writer.
MaxActive == 3

Acquire(l, m) == [op |-> "acquire", lock |-> l, mode |-> m]

Release(ls) == [op |-> "release", locks |-> ls]

\* refresh_stack_cache: update_cache.read(), recreate_cache.read(), then
\* stack_cache.write(); the three guards are dropped at the end of the block.
RefreshLocks ==
    <<Acquire("update_cache", "read"), Acquire("recreate_cache", "read"),
      Acquire("stack_cache", "write"),
      Release({"update_cache", "recreate_cache", "stack_cache"})>>

\* broadcast_stack_list: refresh_stack_cache, then stack_cache.read() for the emit.
BroadcastLocks ==
    RefreshLocks \o <<Acquire("stack_cache", "read"), Release({"stack_cache"})>>

\* A variant of StatusListLocks that keeps the recreate_cache guard while it
\* reads update_cache.
StatusListLocksNested ==
    <<Acquire("recreate_cache", "write"), Acquire("update_cache", "read"),
      Release({"recreate_cache", "update_cache"})>>

\* handle_service_status_list: recreate_cache.write() in its own block, then
\* update_cache.read().
StatusListLocks ==
    <<Acquire("recreate_cache", "write"), Release({"recreate_cache"}),
      Acquire("update_cache", "read"), Release({"update_cache"})>>

\* check_all: update_cache.write() to store the reloaded map.
CheckAllLocks == <<Acquire("update_cache", "write"), Release({"update_cache"})>>

\* TerminalManager::get_buffer: terminals.read(), and under it buffer.read().
GetBufferLocks ==
    <<Acquire("terminals", "read"), Acquire("buffer", "read"),
      Release({"buffer"}), Release({"terminals"})>>

\* PtyTerminal::push_buffer: buffer.write().
PushBufferLocks == <<Acquire("buffer", "write"), Release({"buffer"})>>

\* TerminalManager::exec: has (terminals.read()), insert (terminals.write()),
\* push_buffer of the banner, and remove (terminals.write()) at the end.
ExecLocks ==
    <<Acquire("terminals", "read"), Release({"terminals"}),
      Acquire("terminals", "write"), Release({"terminals"})>>
        \o PushBufferLocks
        \o <<Acquire("terminals", "write"), Release({"terminals"})>>

LockProgram(p) ==
    CASE p = "refresh_stack_cache" -> RefreshLocks
      [] p = "broadcast_stack_list" -> BroadcastLocks
      [] p = "handle_service_status_list" -> StatusListLocks
      [] p = "check_all" -> CheckAllLocks
      [] p = "get_buffer" -> GetBufferLocks
      [] p = "push_buffer" -> PushBufferLocks
      [] p = "exec" -> ExecLocks

\* The guards `held` grants a request of mode m beside.
Compatible(held, m) ==
    IF m = "read" THEN \A h \in held : h.mode = "read" ELSE held = {}

\* p waits in the queue of a lock.
Waiting(p) ==
    \E l \in LockNames : \E k \in 1 .. Len(locks.queue[l]) : locks.queue[l][k].task = p

\* The position after operation k of p's program (0: the task has ended).
After(p, k) == IF k = Len(LockProgram(p)) THEN 0 ELSE k + 1

lockFrame ==
    <<connVars, received, stack_cache, diskVars, engine, termVars, task, recreate_cache,
      image_update_cache, ls_status, status, agents, password, checks, image_ref,
      parsed, user, need_setup, update_cache>>

\* The task is spawned.
LockStart(p) ==
    /\ locks.at[p] = 0
    /\ Cardinality({q \in LockTasks : locks.at[q] # 0}) < MaxActive
    /\ locks' = [locks EXCEPT !.at[p] = 1]
    /\ UNCHANGED lockFrame

\* lock.read().await / lock.write().await: granted at once if nobody is queued and
\* the guards held allow it, queued otherwise.
LockAcquire(p) ==
    /\ locks.at[p] # 0 /\ ~Waiting(p)
    /\ LET o == LockProgram(p)[locks.at[p]]
       IN /\ o.op = "acquire"
          /\ locks' =
                IF locks.queue[o.lock] = <<>> /\ Compatible(locks.held[o.lock], o.mode)
                THEN [locks EXCEPT !.held[o.lock] = @ \cup {[task |-> p, mode |-> o.mode]},
                                   !.at[p] = After(p, @)]
                ELSE [locks EXCEPT !.queue[o.lock] =
                                       Append(@, [task |-> p, mode |-> o.mode])]
    /\ UNCHANGED lockFrame

\* The request at the head of a lock's queue is granted.
LockGrant(l) ==
    /\ locks.queue[l] # <<>>
    /\ LET r == Head(locks.queue[l])
       IN /\ Compatible(locks.held[l], r.mode)
          /\ locks' = [locks EXCEPT !.held[l] = @ \cup {r}, !.queue[l] = Tail(@),
                                    !.at[r.task] = After(r.task, @)]
    /\ UNCHANGED lockFrame

\* Guards are dropped.
LockRelease(p) ==
    /\ locks.at[p] # 0
    /\ LET o == LockProgram(p)[locks.at[p]]
       IN /\ o.op = "release"
          /\ locks' = [locks EXCEPT
                !.held = [l \in LockNames |->
                            IF l \in o.locks THEN {h \in @[l] : h.task # p} ELSE @[l]],
                !.at[p] = After(p, @)]
    /\ UNCHANGED lockFrame

InitLocks ==
    /\ InitCommon
    /\ disk = ManagedDisk
    /\ engine = NoEngine

NextLocks ==
    \/ \E p \in LockTasks : LockStart(p)
    \/ \E p \in LockTasks : LockAcquire(p)
    \/ \E l \in LockNames : LockGrant(l)
    \/ \E p \in LockTasks : LockRelease(p)

SpecLocks ==
    /\ InitLocks /\ [][NextLocks]_vars
    /\ \A p \in LockTasks : WF_vars(LockAcquire(p)) /\ WF_vars(LockRelease(p))
    /\ \A l \in LockNames : WF_vars(LockGrant(l))

\* C35: every task that waits for one of the shared locks eventually holds it.
NoLockDeadlock ==
    \A p \in LockTasks : Waiting(p) ~> ~Waiting(p)

\* The tick holds update_cache for reading, check_all waits to write it, and
\* handle_service_status_list waits behind that writer to read it.
ReaderBehindWriter ==
    /\ [task |-> "refresh_stack_cache", mode |-> "read"] \in locks.held["update_cache"]
    /\ Len(locks.queue["update_cache"]) = 2
    /\ locks.queue["update_cache"][1].task = "check_all"
    /\ locks.queue["update_cache"][2].task = "handle_service_status_list"


\* ==================================================== specification: setup
\* A server started on an empty user table: clients call setup, two calls may be
\* in progress at once.
\* The user table's username column is UNIQUE COLLATE NOCASE: the key compared.
nocase(username) == IF username = <<"A">> THEN <<"a">> ELSE username

\* handle_setup, up to User::count: the event needs no login; a weak password is
\* refused before the table is read.
Setup(t, c, username, pw) ==
    /\ connected[c] /\ SlotFree(t)
    /\ task' = [task EXCEPT ![t] =
          IF ~check_password_strength(pw)
          THEN [NewTask("setup", c, "direct", <<>>) EXCEPT !.pc = "done", !.ack = "tooWeak"]
          ELSE [NewTask("setup", c, "direct", <<>>) EXCEPT !.pc = "count", !.name = username]]
    /\ UNCHANGED <<refVars, connVars, received, stack_cache, diskVars, engine, termVars,
                   recreate_cache, image_update_cache, ls_status, status, agents,
                   password, checks>>

\* User::count(&state.db): a count above zero ends the call.
SetupCount(t) ==
    /\ task[t].op = "setup" /\ task[t].pc = "count"
    /\ task' = [task EXCEPT ![t] =
          IF Cardinality(user) > 0
          THEN [@ EXCEPT !.pc = "done", !.ack = "initialized", !.name = <<>>]
          ELSE [@ EXCEPT !.pc = "create"]]
    /\ UNCHANGED <<refVars, connVars, received, stack_cache, diskVars, engine, termVars,
                   recreate_cache, image_update_cache, ls_status, status, agents,
                   password, checks>>

\* User::create: the INSERT fails on a username the table holds already, whatever
\* its case; on success need_setup is cleared and the call is acknowledged.
SetupCreate(t) ==
    /\ task[t].op = "setup" /\ task[t].pc = "create"
    /\ IF \E u \in user : nocase(u) = nocase(task[t].name)
       THEN /\ task' = [task EXCEPT ![t] =
                          [@ EXCEPT !.pc = "done", !.ack = "dbError", !.name = <<>>]]
            /\ UNCHANGED <<user, need_setup>>
       ELSE /\ user' = user \cup {task[t].name}
            /\ need_setup' = FALSE
            /\ task' = [task EXCEPT ![t] =
                          [@ EXCEPT !.pc = "done", !.ack = "ok", !.name = <<>>]]
    /\ UNCHANGED <<image_ref, parsed, locks, update_cache, connVars, received,
                   stack_cache, diskVars, engine, termVars, recreate_cache,
                   image_update_cache, ls_status, status, agents, password, checks>>

InitSetup ==
    /\ InitServer
    /\ user = {}
    /\ need_setup = TRUE
    /\ disk = ManagedDisk
    /\ engine = NoEngine

NextSetup ==
    \/ \E c \in Conns : Connect(c)
    \/ \E c \in Conns : Disconnect(c)
    \/ \E t \in Tasks, c \in Conns, username \in Usernames, pw \in Passwords :
          Setup(t, c, username, pw)
    \/ \E t \in Tasks : SetupCount(t)
    \/ \E t \in Tasks : SetupCreate(t)

SpecSetup == InitSetup /\ [][NextSetup]_vars

\* C36: setup creates at most one user, and a setup call that passed the
\* password check and created none was refused as 'has been initialized'.
SetupOnce ==
    /\ Cardinality(user) <= 1
    /\ \A t \in Tasks :
          (task[t].op = "setup" /\ task[t].pc = "done") =>
              task[t].ack \in {"ok", "tooWeak", "initialized"}


\* =================================================== specification: stale
\* Check cycles on a managed stack whose compose file a client rewrites between
\* them: the document "a" declares the services s and u with an image each, the
\* document "c" declares no service.
StaleTexts == {<<"a">>, <<"c">>}

NoCheckRuns == \A k \in Cycles : checks[k].kind = "idle"

\* A client saves the stack while no check cycle is running.
SaveBetweenCycles(compose) ==
    /\ NoCheckRuns
    /\ SaveStack(1, 1, "direct", GoodName, compose, <<>>, <<>>, FALSE)

NextStale ==
    \/ Connect(1)
    \/ Login(1)
    \/ \E compose \in StaleTexts : SaveBetweenCycles(compose)
    \/ \E enabled \in BOOLEAN : check_all(1, enabled)
    \/ \E n \in StackNames : check_stack(2, n)
    \/ \E k \in Cycles, n \in StackNames, svc \in ComposeServices : CheckAcquire(k, n, svc)
    \/ \E k \in Cycles, n \in StackNames, svc \in ComposeServices, r, l \in OptDigests :
          CheckRun(k, n, svc, r, l, None)
    \/ \E k \in Cycles : CheckEnd(k)

SpecStale == InitChecks /\ [][NextStale]_vars

\* C40: when a check cycle completes, update_cache[stack].has_updates is true
\* only if a service that the stack's compose file defines with an image has a
\* row with has_update true.
HasUpdatesOnlyFromDefined ==
    [][\A k \in Cycles :
          (checks[k].kind # "idle" /\ checks'[k].kind = "idle") =>
              \A n \in StackNames :
                  update_cache'[n] = Some(TRUE) =>
                      \E svc \in ComposeServices :
                          /\ SpawnedChecks({n})[n][svc] = "waiting"
                          /\ image_update_cache'[n][svc].has_update]_vars

====
